---- MODULE Spec2Model ----
(***************************************************************************)
(* Path/URI algebra of dirent_uri.c: the svn_dirent, svn_relpath and       *)
(* svn_url families.  C strings are sequences of one-character strings; an *)
(* index is 0-based as in the C source and At(s, Len(s)) is the            *)
(* terminating NUL.                                                        *)
(* The compile-time platform switch SVN_USE_DOS_PATHS and the outcome of   *)
(* the unsequenced read in canonicalize() are fields of a build record     *)
(* that every operator takes as its first parameter.                       *)
(***************************************************************************)
EXTENDS Integers, Sequences, FiniteSets, TLC

VARIABLES build, pc, op, type, args, ret

vars == <<build, pc, op, type, args, ret>>

-----------------------------------------------------------------------------
(* C string primitives *)

NUL == "NUL"

At(s, i) == IF i >= 0 /\ i < Len(s) THEN s[i + 1] ELSE NUL

(* s + i *)
StrFrom(s, i) == IF i >= Len(s) THEN << >> ELSE SubSeq(s, i + 1, Len(s))

(* apr_pstrmemdup(s, n) / apr_pstrndup(s, n) for n <= strlen(s) *)
StrPrefix(s, n) == SubSeq(s, 1, n)

(* strncmp(a, b, n) == 0 *)
StrNEq(a, b, n) ==
  \A i \in 0 .. n - 1 : (i <= Len(a) /\ i <= Len(b)) => At(a, i) = At(b, i)

Last(s) == s[Len(s)]

(* smallest index j >= i with s[j] in stops or s[j] the terminator *)
ScanTo(s, i, stops) ==
  CHOOSE j \in i .. Len(s) :
     /\ At(s, j) \in stops \cup {NUL}
     /\ \A k \in i .. j - 1 : At(s, k) \notin stops

LowerLetters ==
  <<"a","b","c","d","e","f","g","h","i","j","k","l","m",
    "n","o","p","q","r","s","t","u","v","w","x","y","z">>

UpperLetters ==
  <<"A","B","C","D","E","F","G","H","I","J","K","L","M",
    "N","O","P","Q","R","S","T","U","V","W","X","Y","Z">>

Digits == <<"0","1","2","3","4","5","6","7","8","9">>

Range(f) == {f[i] : i \in DOMAIN f}

LowerSet == Range(LowerLetters)
UpperSet == Range(UpperLetters)
DigitSet == Range(Digits)

IsLower(c) == c \in LowerSet
IsUpper(c) == c \in UpperSet
IsLetter(c) == IsLower(c) \/ IsUpper(c)
IsDigit(c) == c \in DigitSet

IndexIn(f, c) == CHOOSE i \in DOMAIN f : f[i] = c

canonicalize_to_lower(c) ==
  IF IsUpper(c) THEN LowerLetters[IndexIn(UpperLetters, c)] ELSE c

canonicalize_to_upper(c) ==
  IF IsLower(c) THEN UpperLetters[IndexIn(LowerLetters, c)] ELSE c

LowerStr(s) == [i \in 1 .. Len(s) |-> canonicalize_to_lower(s[i])]

(* the printable ASCII characters 0x20 .. 0x7E, in code order; the double  *)
(* quote, the backslash and the backtick are written by name               *)
Printable ==
  <<" ","!","DQUOTE","#","$","%","&","'","(",")","*","+",",","-",".","/",
    "0","1","2","3","4","5","6","7","8","9",":",";","<","=",">","?",
    "@","A","B","C","D","E","F","G","H","I","J","K","L","M","N","O",
    "P","Q","R","S","T","U","V","W","X","Y","Z","[","BACKSLASH","]","^","_",
    "BACKTICK","a","b","c","d","e","f","g","h","i","j","k","l","m","n","o",
    "p","q","r","s","t","u","v","w","x","y","z","{","|","}","~">>

FirstPrintable == 32

HexDigits ==
  <<"0","1","2","3","4","5","6","7","8","9","A","B","C","D","E","F">>

HexSet == Range(HexDigits)

svn_ctype_isxdigit(c) == canonicalize_to_upper(c) \in HexSet

IsUpperHex(c) == c \in HexSet

(* strtol(digitz, NULL, 16) for two hex digits *)
HexVal(c1, c2) ==
  (IndexIn(HexDigits, canonicalize_to_upper(c1)) - 1) * Len(HexDigits)
  + (IndexIn(HexDigits, canonicalize_to_upper(c2)) - 1)

(* (char)val for a printable code *)
CharOf(val) == Printable[val - FirstPrintable + 1]

IsPrintableCode(val) ==
  val >= FirstPrintable /\ val < FirstPrintable + Len(Printable)

ValidPunct == {"!","$","&","'","(",")","*","+",",","-",".","/",":","=","@","_","~"}

(* svn_uri__char_validity[c] != 0 *)
svn_uri__char_validity(c) == IsLetter(c) \/ IsDigit(c) \/ c \in ValidPunct

(* svn_uri__char_validity[val] != 0 for a byte value *)
ValidCode(val) == IsPrintableCode(val) /\ svn_uri__char_validity(CharOf(val))

-----------------------------------------------------------------------------
(* path_type_t *)

type_uri == "type_uri"
type_dirent == "type_dirent"
type_relpath == "type_relpath"

PathTypes == {type_uri, type_dirent, type_relpath}

(* A build: SVN_USE_DOS_PATHS defined or not, and, for the assignment that  *)
(* lowers the UNC server name through dst++ while reading dst, whether the  *)
(* compiler reads dst after the increment (unseq_new) or before it: the     *)
(* read and the increment are unsequenced.                                  *)
Builds ==
  { [dos |-> FALSE, unseq_new |-> FALSE],
    [dos |-> TRUE,  unseq_new |-> FALSE],
    [dos |-> TRUE,  unseq_new |-> TRUE] }

-----------------------------------------------------------------------------
(* Internal implementation functions *)

dirent_is_rooted(b, dirent) ==
  \/ At(dirent, 0) = "/"
  \/ b.dos /\ IsLetter(At(dirent, 0)) /\ At(dirent, 1) = ":"

svn_dirent_is_absolute(b, dirent) ==
  \/ At(dirent, 0) = "/" /\ (b.dos => At(dirent, 1) = "/")
  \/ b.dos /\ IsUpper(At(dirent, 0)) /\ At(dirent, 1) = ":"
           /\ At(dirent, 2) = "/"

(* skip_uri_scheme(path) != NULL *)
svn_path_is_url(path) ==
  LET j == ScanTo(path, 0, {":", "/"})
  IN  /\ j > 0
      /\ At(path, j) = ":"
      /\ At(path, j + 1) = "/"
      /\ At(path, j + 2) = "/"

(* canonicalize(): the scheme and authority of a URL, or the leading        *)
(* separator or drive letter of a dirent, copied to dst                     *)
canon_prefix(b, t, path) ==
  LET s1 == ScanTo(path, 0, {"/", ":"})
      url == /\ t = type_uri
             /\ At(path, 0) # "/"
             /\ At(path, s1) = ":"
             /\ At(path, s1 + 1) = "/"
             /\ At(path, s1 + 2) = "/"
  IN  IF url
      THEN LET seg == s1 + 3
               s2 == ScanTo(path, seg, {"/", "@"})
               user == At(path, s2) = "@"
               userinfo == IF user THEN SubSeq(path, seg + 1, s2 + 1)
                                   ELSE << >>
               hsrc == IF user THEN s2 + 1 ELSE seg
               s3 == ScanTo(path, hsrc, {"/"})
               more == At(path, s3) # NUL
               d == LowerStr(SubSeq(path, 1, s1))
                    \o <<":", "/", "/">> \o userinfo
                    \o LowerStr(SubSeq(path, hsrc + 1, s3))
                    \o (IF more THEN <<"/">> ELSE << >>)
           IN  [url |-> TRUE, dst |-> d,
                src |-> IF more THEN s3 + 1 ELSE s3,
                schemelen |-> s1 + 3,
                schema_data |-> IF more THEN Len(d) ELSE -1,
                canon_segments |-> 1]
      ELSE LET plain == [url |-> FALSE, dst |-> << >>, src |-> 0,
                         schemelen |-> 0, schema_data |-> -1,
                         canon_segments |-> 0]
           IN  IF t = type_relpath THEN plain
               ELSE IF At(path, 0) = "/"
               THEN IF b.dos /\ t = type_dirent /\ At(path, 1) = "/"
                    THEN [plain EXCEPT !.dst = <<"/", "/">>, !.src = 2]
                    ELSE [plain EXCEPT !.dst = <<"/">>, !.src = 1]
               ELSE IF b.dos /\ t = type_dirent /\ IsLetter(At(path, 0))
                       /\ At(path, 1) = ":"
               THEN [plain EXCEPT
                       !.dst = <<canonicalize_to_upper(At(path, 0))>>,
                       !.src = 1]
               ELSE plain

FileColon == <<"f", "i", "l", "e", ":">>

(* canonicalize(): the loop over the segments; yields dst and               *)
(* canon_segments                                                           *)
RECURSIVE canon_walk(_, _, _, _, _, _)
canon_walk(b, path, url, src, dst, n) ==
  IF At(path, src) = NUL
  THEN [dst |-> dst, canon_segments |-> n]
  ELSE LET next == ScanTo(path, src, {"/"})
           seglen == next - src
           more == At(path, next) # NUL
           nsrc == IF more THEN next + 1 ELSE next
       IN  IF seglen = 0 \/ (seglen = 1 /\ At(path, src) = ".")
           THEN canon_walk(b, path, url, nsrc, dst, n)
           ELSE IF /\ b.dos /\ url /\ n = 1 /\ seglen = 2
                   /\ StrNEq(dst, FileColon, Len(FileColon))
                   /\ IsLower(At(path, src)) /\ At(path, src + 1) = ":"
           THEN canon_walk(b, path, url, nsrc,
                           dst \o <<canonicalize_to_upper(At(path, src)), ":">>
                               \o (IF more THEN <<"/">> ELSE << >>),
                           n + 1)
           ELSE canon_walk(b, path, url, nsrc,
                           dst \o SubSeq(path, src + 1,
                                         IF more THEN next + 1 ELSE next),
                           n + 1)

(* "%%%02X" of one printable character *)
PercentEncode(c) ==
  LET code == IndexIn(Printable, c) - 1 + FirstPrintable
  IN  <<"%", HexDigits[(code \div Len(HexDigits)) + 1],
             HexDigits[(code % Len(HexDigits)) + 1]>>

(* canonicalize(): the normalization of the characters after the authority *)
RECURSIVE uri_normalize(_)
uri_normalize(s) ==
  IF s = << >> THEN << >>
  ELSE IF s[1] = "/" THEN <<"/">> \o uri_normalize(Tail(s))
  ELSE IF s[1] = "%"
  THEN IF ~svn_ctype_isxdigit(At(s, 1)) \/ ~svn_ctype_isxdigit(At(s, 2))
       THEN <<"%", "2", "5">> \o uri_normalize(Tail(s))
       ELSE LET val == HexVal(s[2], s[3])
            IN  (IF ValidCode(val)
                 THEN <<CharOf(val)>>
                 ELSE <<"%", canonicalize_to_upper(s[2]),
                             canonicalize_to_upper(s[3])>>)
                \o uri_normalize(StrFrom(s, 3))
  ELSE IF ~svn_uri__char_validity(s[1])
  THEN PercentEncode(s[1]) \o uri_normalize(Tail(s))
  ELSE <<s[1]>> \o uri_normalize(Tail(s))

(* canonicalize(): the server name of a UNC path made lower case *)
unc_lower_host(b, canon) ==
  LET h == ScanTo(canon, 2, {"/"})
  IN  [i \in 1 .. Len(canon) |->
         IF i - 1 >= 2 /\ i - 1 < h
         THEN canonicalize_to_lower(At(canon, IF b.unseq_new THEN i ELSE i - 1))
         ELSE canon[i]]

(* canonicalize(): the trailing '/' is chopped unless the string is a root *)
canon_chop(path, pre, w) ==
  IF /\ w.canon_segments > 0
     /\ Last(w.dst) = "/"
     /\ ~(pre.url /\ At(path, pre.schemelen) = NUL)
  THEN StrPrefix(w.dst, Len(w.dst) - 1)
  ELSE w.dst

(* canonicalize(): the UNC block, then the normalization of a uri *)
canon_finish(b, t, pre, w, canon) ==
  IF b.dos /\ t = type_dirent /\ At(canon, 0) = "/" /\ At(canon, 1) = "/"
  THEN IF w.canon_segments < 2
       THEN StrFrom(canon, 1)
       ELSE unc_lower_host(b, canon)
  ELSE IF pre.schema_data # -1 /\ pre.schema_data < Len(canon)
  THEN StrPrefix(canon, pre.schema_data)
       \o uri_normalize(StrFrom(canon, pre.schema_data))
  ELSE canon

canon_segments_of(b, t, path, pre, w) ==
  canon_finish(b, t, pre, w, canon_chop(path, pre, w))

canon_after_prefix(b, t, path, pre) ==
  canon_segments_of(b, t, path, pre,
                    canon_walk(b, path, pre.url, pre.src, pre.dst,
                               pre.canon_segments))

canonicalize(b, t, path) ==
  IF path = << >> THEN << >>
  ELSE canon_after_prefix(b, t, path, canon_prefix(b, t, path))

svn_url_canonicalize(b, uri) == canonicalize(b, type_uri, uri)

svn_relpath_canonicalize(b, relpath) == canonicalize(b, type_relpath, relpath)

svn_dirent_canonicalize(b, dirent) ==
  LET dst == canonicalize(b, type_dirent, dirent)
  IN  IF /\ b.dos /\ IsLetter(At(dirent, 0)) /\ At(dirent, 1) = ":"
         /\ At(dirent, 2) = "/" /\ At(dst, 3) = NUL
      THEN <<canonicalize_to_upper(At(dirent, 0)), ":", "/">>
      ELSE dst

-----------------------------------------------------------------------------
(* is_canonical *)

(* relpath_is_canonical(): the validating loop, entered with ptr and seg *)
RECURSIVE relpath_segments_ok(_, _, _)
relpath_segments_ok(s, ptr, seg) ==
  IF ptr - seg = 1 /\ At(s, seg) = "." THEN FALSE
  ELSE IF At(s, ptr) = "/" /\ At(s, ptr + 1) = "/" THEN FALSE
  ELSE IF At(s, ptr) = NUL /\ At(s, ptr - 1) = "/" THEN FALSE
  ELSE IF At(s, ptr) = NUL THEN TRUE
  ELSE LET p == IF At(s, ptr) = "/" THEN ptr + 1 ELSE ptr
       IN  relpath_segments_ok(s, ScanTo(s, p, {"/"}), p)

relpath_is_canonical(relpath) ==
  IF relpath = << >> THEN TRUE
  ELSE IF At(relpath, 0) = "/" THEN FALSE
  ELSE relpath_segments_ok(relpath, 0, 0)

svn_relpath_is_canonical(b, relpath) == relpath_is_canonical(relpath)

svn_dirent_is_canonical(b, dirent) ==
  IF At(dirent, 0) = "/"
  THEN IF b.dos /\ At(dirent, 1) = "/"
       THEN dirent = svn_dirent_canonicalize(b, dirent)
       ELSE relpath_is_canonical(StrFrom(dirent, 1))
  ELSE IF b.dos /\ IsLetter(At(dirent, 0)) /\ At(dirent, 1) = ":"
  THEN IF ~IsUpper(At(dirent, 0)) THEN FALSE
       ELSE relpath_is_canonical(
              StrFrom(dirent, IF At(dirent, 2) = "/" THEN 3 ELSE 2))
  ELSE relpath_is_canonical(dirent)

(* svn_url_is_canonical(): the validating loop over the segments *)
RECURSIVE url_segments_ok(_, _, _)
url_segments_ok(s, ptr, seg) ==
  IF ptr - seg = 1 /\ At(s, seg) = "." THEN FALSE
  ELSE IF At(s, ptr) = "/" /\ At(s, ptr + 1) = "/" THEN FALSE
  ELSE IF At(s, ptr) = NUL /\ At(s, ptr - 1) = "/" /\ ptr - 1 # 0 THEN FALSE
  ELSE IF At(s, ptr) = NUL THEN TRUE
  ELSE LET p == IF At(s, ptr) = "/" THEN ptr + 1 ELSE ptr
       IN  url_segments_ok(s, ScanTo(s, p, {"/"}), p)

(* svn_url_is_canonical(): the check of the escapes from schema_data on *)
RECURSIVE url_escapes_ok(_)
url_escapes_ok(s) ==
  IF s = << >> THEN TRUE
  ELSE IF s[1] = "%"
  THEN IF ~IsDigit(At(s, 1)) /\ ~IsUpperHex(At(s, 1)) THEN FALSE
       ELSE IF ~IsDigit(At(s, 2)) /\ ~IsUpperHex(At(s, 2)) THEN FALSE
       ELSE IF ValidCode(HexVal(s[2], s[3])) THEN FALSE
       ELSE url_escapes_ok(StrFrom(s, 3))
  ELSE IF s[1] # "/" /\ ~svn_uri__char_validity(s[1]) THEN FALSE
  ELSE url_escapes_ok(Tail(s))

svn_url_is_canonical(b, uri) ==
  IF uri = << >> THEN TRUE
  ELSE
    LET s1 == ScanTo(uri, 0, {"/", ":"})
        scheme == /\ At(uri, 0) # "/"
                  /\ At(uri, s1) = ":"
                  /\ At(uri, s1 + 1) = "/"
                  /\ At(uri, s1 + 2) = "/"
        s2 == ScanTo(uri, s1 + 3, {"/", "@"})
        hseg == IF At(uri, s2) = "@" THEN s2 + 1 ELSE s1 + 3
        hend == ScanTo(uri, hseg, {"/"})
        (* ptr, seg and schema_data on entry to the validating loop *)
        ptr == IF At(uri, 0) = "/" THEN 0
               ELSE IF scheme THEN hend
               ELSE ScanTo(uri, s1, {"/"})
        seg == IF scheme THEN hseg ELSE 0
    IN  IF scheme /\ \E i \in 0 .. s1 - 1 : IsUpper(At(uri, i)) THEN FALSE
        ELSE IF scheme /\ At(uri, s2) = NUL THEN TRUE
        ELSE IF scheme /\ \E i \in hseg .. hend - 1 : IsUpper(At(uri, i))
        THEN FALSE
        ELSE IF /\ b.dos /\ scheme /\ At(uri, ptr) = "/"
                /\ StrNEq(uri, FileColon, Len(FileColon))
                /\ ~IsUpper(At(uri, ptr + 1))
                /\ At(uri, ptr + 2) = ":"
        THEN FALSE
        ELSE IF ~url_segments_ok(uri, ptr, seg) THEN FALSE
        ELSE IF scheme THEN url_escapes_ok(StrFrom(uri, ptr))
        ELSE TRUE

-----------------------------------------------------------------------------
(* Roots and segments *)

(* index of the first '/' in s[i .. len-1], or len when there is none *)
SlashFrom(s, i, len) == ScanTo(StrPrefix(s, len), i, {"/"})

dirent_root_length(b, dirent, len) ==
  IF b.dos /\ len >= 2 /\ At(dirent, 1) = ":" /\ IsLetter(At(dirent, 0))
  THEN IF len > 2 /\ At(dirent, 2) = "/" THEN 3 ELSE 2
  ELSE IF b.dos /\ len > 2 /\ At(dirent, 0) = "/" /\ At(dirent, 1) = "/"
  THEN LET i == SlashFrom(dirent, 2, len)
       IN  IF i = len THEN len ELSE SlashFrom(dirent, i + 1, len)
  ELSE IF len >= 1 /\ At(dirent, 0) = "/" THEN 1
  ELSE 0

dirent_previous_segment(b, dirent, len) ==
  IF len = 0 THEN 0
  ELSE LET stop(j) == \/ j = 0
                      \/ At(dirent, j) = "/"
                      \/ b.dos /\ At(dirent, j) = ":" /\ j = 1
           l == CHOOSE j \in 0 .. len - 1 :
                   stop(j) /\ \A k \in j + 1 .. len - 1 : ~stop(k)
       IN  IF dirent_root_length(b, dirent, l + 1) = l + 1 THEN l + 1 ELSE l

FileWord == <<"f", "i", "l", "e">>
FileSchemeRoot == 7

uri_schema_root_length(uri, len) ==
  LET i == SlashFrom(uri, 0, len)
  IN  IF i = len THEN 0
      ELSE IF i > 0 /\ At(uri, i - 1) = ":" /\ i < len - 1
              /\ At(uri, i + 1) = "/"
      THEN IF i = Len(FileWord) + 1 /\ StrNEq(FileWord, uri, Len(FileWord))
           THEN FileSchemeRoot
           ELSE SlashFrom(uri, i + 2, len)
      ELSE 0

relpath_previous_segment(relpath, len) ==
  IF len = 0 THEN 0
  ELSE CHOOSE j \in 0 .. len - 1 :
          /\ (j = 0 \/ At(relpath, j) = "/")
          /\ \A k \in j + 1 .. len - 1 : At(relpath, k) # "/"

(* the value BadIndex stands for an index that ran below the start of uri: *)
(* the loop of uri_previous_segment does not stop at index 0               *)
BadIndex == -1

uri_previous_segment(uri, len) ==
  IF len = 0 THEN 0
  ELSE LET root_length == uri_schema_root_length(uri, len)
           slashes == {j \in 0 .. len - 1 : At(uri, j) = "/"}
           i == IF len > root_length
                THEN IF slashes = {} THEN BadIndex
                     ELSE CHOOSE j \in slashes : \A k \in slashes : k <= j
                ELSE len - 1
       IN  IF i = 0 /\ len > 1 /\ At(uri, 0) = "/" THEN 1 ELSE i

svn_dirent_is_root(b, dirent, len) ==
  \/ /\ b.dos
     /\ len = 2 \/ (len = 3 /\ At(dirent, 2) = "/")
     /\ At(dirent, 1) = ":"
     /\ IsLetter(At(dirent, 0))
  \/ /\ b.dos
     /\ len >= 2 /\ At(dirent, 0) = "/" /\ At(dirent, 1) = "/"
     /\ At(dirent, len - 1) # "/"
     /\ Cardinality({i \in 2 .. len : At(dirent, i) = "/"}) = 1
  \/ /\ ~(b.dos /\ len >= 2 /\ At(dirent, 0) = "/" /\ At(dirent, 1) = "/"
               /\ At(dirent, len - 1) # "/")
     /\ len = 1 /\ At(dirent, 0) = "/"

svn_url_is_root(uri, len) ==
  IF len = 1 /\ At(uri, 0) = "/" THEN TRUE
  ELSE IF len = 0 THEN FALSE
  ELSE len = uri_schema_root_length(uri, len)

-----------------------------------------------------------------------------
(* Ancestors and children *)

(* a NULL return, told apart from every string *)
NULLPTR == <<"NULL">>

get_longest_ancestor_length(b, types, path1, path2) ==
  LET path1_len == Len(path1)
      path2_len == Len(path2)
      m == IF path1_len < path2_len THEN path1_len ELSE path2_len
      (* the loop: i is the length of the common prefix *)
      i == CHOOSE n \in 0 .. m :
              /\ \A k \in 0 .. n - 1 : At(path1, k) = At(path2, k)
              /\ n < m => At(path1, n) # At(path2, n)
      seps == {k \in 0 .. i - 1 : At(path1, k) = "/"}
      dirsep0 == IF seps = {} THEN 0
                 ELSE CHOOSE k \in seps : \A j \in seps : j <= k
      dosdirent == b.dos /\ types = type_dirent
      unc == dosdirent /\ dirsep0 = 1 /\ At(path1, 0) = "/"
                       /\ At(path1, 1) = "/"
      last_dirsep == IF unc THEN 0 ELSE dirsep0
  IN  IF path1 = << >> \/ path2 = << >> THEN 0
      ELSE IF i = 1 /\ At(path1, 0) = "/" /\ At(path2, 0) = "/" THEN 1
      ELSE IF types = type_dirent /\ i = 0 THEN 0
      ELSE IF dosdirent /\ i = 3 /\ At(path1, 2) = "/" /\ At(path1, 1) = ":"
      THEN i
      ELSE IF dosdirent /\ (\/ At(path1, i - 1) = ":" /\ At(path2, i) = "/"
                            \/ At(path2, i - 1) = ":" /\ At(path1, i) = "/")
      THEN 0
      ELSE IF dosdirent /\ (At(path1, i - 1) = ":" \/ At(path2, i - 1) = ":")
      THEN i
      ELSE IF \/ i = path1_len /\ At(path2, i) = "/"
              \/ i = path2_len /\ At(path1, i) = "/"
              \/ i = path1_len /\ i = path2_len
      THEN i
      ELSE IF /\ b.dos /\ ~unc /\ types = type_dirent /\ last_dirsep = 2
              /\ At(path1, 1) = ":" /\ At(path1, 2) = "/"
              /\ At(path2, 1) = ":" /\ At(path2, 2) = "/"
      THEN 3
      ELSE IF /\ ~(b.dos /\ unc)
              /\ last_dirsep = 0 /\ At(path1, 0) = "/" /\ At(path2, 0) = "/"
      THEN 1
      ELSE last_dirsep

is_child(b, t, path1, path2) ==
  IF path1 = << >>
  THEN IF path2 = << >> THEN NULLPTR
       ELSE IF t = type_uri \/ (t = type_dirent /\ dirent_is_rooted(b, path2))
       THEN NULLPTR
       ELSE path2
  ELSE
    LET i == Len(path1)
    IN  IF \E k \in 0 .. i - 1 : At(path2, k) = NUL \/ At(path1, k) # At(path2, k)
        THEN NULLPTR
        ELSE IF At(path2, i) # NUL
        THEN IF \/ At(path1, i - 1) = "/"
                \/ b.dos /\ t = type_dirent /\ At(path1, i - 1) = ":"
             THEN IF At(path2, i) = "/" THEN NULLPTR
                  ELSE StrFrom(path2, i)
             ELSE IF At(path2, i) = "/"
             THEN IF At(path2, i + 1) # NUL THEN StrFrom(path2, i + 1)
                  ELSE NULLPTR
             ELSE NULLPTR
        ELSE NULLPTR

(* is_ancestor that accepts a path only one segment below path1 *)
is_ancestor_one_level(b, t, path1, path2) ==
  IF path1 = << >>
  THEN CASE t = type_dirent  -> ~dirent_is_rooted(b, path2)
         [] t = type_relpath -> TRUE
         [] t = type_uri     -> FALSE
  ELSE LET path1_len == Len(path1)
       IN  /\ StrNEq(path1, path2, path1_len)
           /\ \/ At(path2, path1_len) = NUL
              \/ /\ \/ At(path1, path1_len - 1) = "/"
                    \/ At(path2, path1_len) = "/"
                 /\ \A k \in path1_len + 1 .. Len(path2) - 1 :
                      At(path2, k) # "/"

is_ancestor(b, t, path1, path2) ==
  IF path1 = << >>
  THEN CASE t = type_dirent  -> ~dirent_is_rooted(b, path2)
         [] t = type_relpath -> TRUE
         [] t = type_uri     -> FALSE
  ELSE LET path1_len == Len(path1)
       IN  IF StrNEq(path1, path2, path1_len)
           THEN \/ At(path1, path1_len - 1) = "/"
                \/ b.dos /\ t = type_dirent /\ At(path1, path1_len - 1) = ":"
                \/ At(path2, path1_len) = "/"
                \/ At(path2, path1_len) = NUL
           ELSE FALSE

svn_dirent_is_child(b, parent, child) == is_child(b, type_dirent, parent, child)
svn_relpath_is_child(b, parent, child) == is_child(b, type_relpath, parent, child)
svn_url_is_child(b, parent, child) == is_child(b, type_uri, parent, child)

svn_dirent_is_ancestor(b, parent, child) ==
  is_ancestor(b, type_dirent, parent, child)
svn_relpath_is_ancestor(b, parent, child) ==
  is_ancestor(b, type_relpath, parent, child)
svn_url_is_ancestor(b, parent, child) ==
  is_ancestor(b, type_uri, parent, child)

(* 0 == memcmp(parent, child, len): the first difference, if any, lies     *)
(* within both strings, terminator included                                *)
MemEq(parent, child, len) == \A k \in 0 .. len - 1 : At(parent, k) = At(child, k)

svn_dirent_skip_ancestor(b, parent_dirent, child_dirent) ==
  LET len == Len(parent_dirent)
      root_len == dirent_root_length(b, child_dirent, Len(child_dirent))
  IN  IF ~MemEq(parent_dirent, child_dirent, len) THEN child_dirent
      ELSE IF At(child_dirent, len) = NUL THEN << >>
      ELSE IF root_len > len THEN child_dirent
      ELSE IF len = 1 /\ At(child_dirent, 0) = "/" THEN StrFrom(child_dirent, 1)
      ELSE IF At(child_dirent, len) = "/" THEN StrFrom(child_dirent, len + 1)
      ELSE IF b.dos /\ root_len = len /\ len > 0
              /\ At(child_dirent, len - 1) # NUL
      THEN StrFrom(child_dirent, len)
      ELSE child_dirent

svn_relpath_skip_ancestor(b, parent_relpath, child_relpath) ==
  LET len == Len(parent_relpath)
  IN  IF ~MemEq(parent_relpath, child_relpath, len) THEN child_relpath
      ELSE IF At(child_relpath, len) = NUL THEN << >>
      ELSE IF At(child_relpath, len) = "/" THEN StrFrom(child_relpath, len + 1)
      ELSE child_relpath

svn_url_skip_ancestor(b, parent_uri, child_uri) ==
  LET len == Len(parent_uri)
  IN  IF ~MemEq(parent_uri, child_uri, len) THEN child_uri
      ELSE IF At(child_uri, len) = NUL THEN << >>
      ELSE IF len = 1 /\ At(child_uri, 0) = "/" THEN StrFrom(child_uri, 1)
      ELSE IF len > 0 /\ At(child_uri, len) = "/" THEN StrFrom(child_uri, len + 1)
      ELSE child_uri

svn_dirent_get_longest_ancestor(b, dirent1, dirent2) ==
  StrPrefix(dirent1, get_longest_ancestor_length(b, type_dirent, dirent1, dirent2))

svn_relpath_get_longest_ancestor(b, relpath1, relpath2) ==
  StrPrefix(relpath1,
            get_longest_ancestor_length(b, type_relpath, relpath1, relpath2))

svn_url_get_longest_ancestor(b, uri1, uri2) ==
  IF svn_path_is_url(uri1) /\ svn_path_is_url(uri2)
  THEN LET c1 == ScanTo(uri1, 0, {":"})
           (* the scan for ':' returns "" at the first difference *)
           same == \A k \in 0 .. c1 : At(uri1, k) = At(uri2, k)
           i == c1 + 3
           uri_ancestor_len ==
             get_longest_ancestor_length(b, type_uri, StrFrom(uri1, i),
                                         StrFrom(uri2, i))
       IN  IF ~same THEN << >>
           ELSE IF uri_ancestor_len = 0
                   \/ (uri_ancestor_len = 1 /\ At(uri1, i) = "/")
           THEN << >>
           ELSE StrPrefix(uri1, uri_ancestor_len + i)
  ELSE IF ~svn_path_is_url(uri1) /\ ~svn_path_is_url(uri2)
  THEN StrPrefix(uri1, get_longest_ancestor_length(b, type_uri, uri1, uri2))
  ELSE << >>

-----------------------------------------------------------------------------
(* Join and split *)

EndsWithSeparator(b, s) ==
  Len(s) > 0 /\ (Last(s) = "/" \/ (b.dos /\ Last(s) = ":"))

(* svn_dirent_join that always inserts the separator *)
svn_dirent_join_always_separator(b, base, component) ==
  IF svn_dirent_is_absolute(b, component) THEN component
  ELSE IF base = << >> THEN component
  ELSE IF component = << >> THEN base
  ELSE base \o <<"/">> \o component

svn_dirent_join(b, base, component) ==
  IF svn_dirent_is_absolute(b, component) THEN component
  ELSE IF base = << >> THEN component
  ELSE IF component = << >> THEN base
  ELSE IF b.dos /\ At(component, 0) = "/"
  THEN IF dirent_is_rooted(b, base)
       THEN LET rl == dirent_root_length(b, base, Len(base))
                root == IF rl = 2 /\ At(base, 1) = ":"
                        THEN StrPrefix(base, 2) \o <<"/">>
                        ELSE StrPrefix(base, rl)
                comp == StrFrom(component, 1)
            IN  IF comp = << >> THEN root
                ELSE root
                     \o (IF EndsWithSeparator(b, root) THEN << >> ELSE <<"/">>)
                     \o comp
       ELSE component
  ELSE IF b.dos /\ dirent_is_rooted(b, component) THEN component
  ELSE base \o (IF EndsWithSeparator(b, base) THEN << >> ELSE <<"/">>)
            \o component

MAX_SAVED_LENGTHS == 10

(* the outcome of a join_many whose final assertion on the length fails *)
ABORTED == <<"ABORT">>

(* svn_dirent_join_many(): the first pass over the non-empty components,   *)
(* which computes total_len, base_arg, add_separator and the base to copy, *)
(* and stores the lengths: stores holds, in order, the slot of              *)
(* saved_lengths of each store and the argument whose length it is, the     *)
(* base being argument 0                                                    *)
RECURSIVE join_many_measure(_, _, _, _)
join_many_measure(b, comps, k, st) ==
  IF k > Len(comps) THEN st
  ELSE
    LET c == comps[k]
        len == Len(c)
        nargs == st.nargs + 1
        saved == IF st.nargs < MAX_SAVED_LENGTHS
                   THEN Append(st.stores, [slot |-> nargs, arg |-> k])
                   ELSE st.stores
    IN  IF c = << >> THEN join_many_measure(b, comps, k + 1, st)
        ELSE IF dirent_is_rooted(b, c)
        THEN IF b.dos /\ ~svn_dirent_is_absolute(b, c)
             THEN LET j == svn_dirent_join(b, st.base, c)
                  IN  join_many_measure(b, comps, k + 1,
                        [st EXCEPT !.nargs = nargs, !.total_len = Len(j),
                                   !.base_arg = nargs + 1, !.base = j,
                                   !.stores =
                                      Append(saved, [slot |-> 0, arg |-> 0]),
                                   !.add_separator =
                                      IF EndsWithSeparator(b, j) THEN 0 ELSE 1])
             ELSE join_many_measure(b, comps, k + 1,
                    [st EXCEPT !.nargs = nargs, !.total_len = len,
                               !.base_arg = nargs, !.base = << >>,
                               !.stores =
                                  Append(saved, [slot |-> 0, arg |-> 0]),
                               !.add_separator =
                                  IF EndsWithSeparator(b, c) THEN 0 ELSE 1])
        ELSE join_many_measure(b, comps, k + 1,
               [st EXCEPT !.nargs = nargs, !.stores = saved,
                          !.total_len =
                             st.total_len + len
                             + (IF nargs <= st.base_arg + 1
                                THEN st.add_separator ELSE 1)])

(* svn_dirent_join_many(): the second pass, which copies the components    *)
RECURSIVE join_many_copy(_, _, _, _, _)
join_many_copy(comps, k, nargs0, st, p) ==
  IF k > Len(comps) THEN p
  ELSE
    LET c == comps[k]
        nargs == nargs0 + 1
    IN  IF c = << >> THEN join_many_copy(comps, k + 1, nargs0, st, p)
        ELSE IF nargs < st.base_arg
        THEN join_many_copy(comps, k + 1, nargs, st, p)
        ELSE join_many_copy(comps, k + 1, nargs, st,
               p \o (IF p # << >>
                        /\ (~(nargs - 1 <= st.base_arg) \/ st.add_separator # 0)
                     THEN <<"/">> ELSE << >>)
                 \o c)

(* svn_dirent_join_many(): the reads of saved_lengths of the second pass   *)
(* from comps[k] on, as the slot read and the argument copied               *)
RECURSIVE join_many_reads(_, _, _, _)
join_many_reads(comps, k, nargs0, st) ==
  IF k > Len(comps) THEN << >>
  ELSE IF comps[k] = << >> THEN join_many_reads(comps, k + 1, nargs0, st)
  ELSE IF nargs0 + 1 < st.base_arg
    THEN join_many_reads(comps, k + 1, nargs0 + 1, st)
  ELSE (IF nargs0 + 1 < MAX_SAVED_LENGTHS
          THEN <<[slot |-> nargs0 + 1, arg |-> k]>> ELSE << >>)
       \o join_many_reads(comps, k + 1, nargs0 + 1, st)

(* svn_dirent_join_many(): the stores to saved_lengths of the first pass,  *)
(* and the reads of the second pass when the function comes to it           *)
join_many_saved_lengths(b, base, comps) ==
  LET st == join_many_measure(b, comps, 1,
              [nargs |-> 0, base_arg |-> 0, base |-> base,
               total_len |-> Len(base),
               stores |-> <<[slot |-> 0, arg |-> 0]>>,
               add_separator |->
                  IF base = << >> \/ EndsWithSeparator(b, base)
                    THEN 0 ELSE 1])
  IN  [stores |-> st.stores,
       reads |->
         IF st.add_separator = 0 /\ st.total_len = 1 THEN << >>
         ELSE (IF st.base # << >> THEN <<[slot |-> 0, arg |-> 0]>>
               ELSE << >>)
              \o join_many_reads(comps, 1, 0, st)]

svn_dirent_join_many(b, base, comps) ==
  LET st0 == [nargs |-> 0, base_arg |-> 0, base |-> base,
              total_len |-> Len(base),
              stores |-> <<[slot |-> 0, arg |-> 0]>>,
              add_separator |->
                 IF base = << >> \/ EndsWithSeparator(b, base) THEN 0 ELSE 1]
      st == join_many_measure(b, comps, 1, st0)
      out == join_many_copy(comps, 1, 0, st, st.base)
  IN  IF st.add_separator = 0 /\ st.total_len = 1 THEN <<"/">>
      ELSE IF Len(out) = st.total_len THEN out
      ELSE ABORTED

svn_relpath_join(b, base, component) ==
  IF base = << >> THEN component
  ELSE IF component = << >> THEN base
  ELSE base \o <<"/">> \o component

svn_url_join_relpath(b, base, relpath) ==
  IF relpath = << >> THEN base ELSE base \o <<"/">> \o relpath

svn_dirent_dirname(b, dirent) ==
  LET len == Len(dirent)
  IN  IF len = dirent_root_length(b, dirent, len) THEN dirent
      ELSE StrPrefix(dirent, dirent_previous_segment(b, dirent, len))

svn_dirent_basename(b, dirent) ==
  LET len == Len(dirent)
      stop(j) == \/ j = 0
                 \/ At(dirent, j - 1) = "/"
                 \/ b.dos /\ At(dirent, j - 1) = ":"
      start == CHOOSE j \in 0 .. len :
                  stop(j) /\ \A k \in j + 1 .. len : ~stop(k)
  IN  IF svn_dirent_is_root(b, dirent, len) THEN << >>
      ELSE StrFrom(dirent, start)

svn_relpath_dirname(b, relpath) ==
  StrPrefix(relpath, relpath_previous_segment(relpath, Len(relpath)))

svn_relpath_basename(b, relpath) ==
  LET len == Len(relpath)
      stop(j) == j = 0 \/ At(relpath, j - 1) = "/"
      start == CHOOSE j \in 0 .. len :
                  stop(j) /\ \A k \in j + 1 .. len : ~stop(k)
  IN  StrFrom(relpath, start)

svn_url_dirname(b, uri) ==
  LET len == Len(uri)
  IN  IF svn_url_is_root(uri, len) THEN uri
      ELSE StrPrefix(uri, uri_previous_segment(uri, len))

svn_url_basename(b, uri) ==
  LET len == Len(uri)
      stop(j) == j = 0 \/ At(uri, j - 1) = "/"
      start == CHOOSE j \in 0 .. len :
                  stop(j) /\ \A k \in j + 1 .. len : ~stop(k)
  IN  IF svn_url_is_root(uri, len) THEN << >>
      ELSE StrFrom(uri, start)

-----------------------------------------------------------------------------
(* The public entry points by flavor *)

Canonicalize(b, t, path) ==
  CASE t = type_uri     -> svn_url_canonicalize(b, path)
    [] t = type_relpath -> svn_relpath_canonicalize(b, path)
    [] t = type_dirent  -> svn_dirent_canonicalize(b, path)

IsCanonical(b, t, path) ==
  CASE t = type_uri     -> svn_url_is_canonical(b, path)
    [] t = type_relpath -> svn_relpath_is_canonical(b, path)
    [] t = type_dirent  -> svn_dirent_is_canonical(b, path)

IsChild(b, t, parent, child) ==
  CASE t = type_uri     -> svn_url_is_child(b, parent, child)
    [] t = type_relpath -> svn_relpath_is_child(b, parent, child)
    [] t = type_dirent  -> svn_dirent_is_child(b, parent, child)

IsAncestor(b, t, parent, child) ==
  CASE t = type_uri     -> svn_url_is_ancestor(b, parent, child)
    [] t = type_relpath -> svn_relpath_is_ancestor(b, parent, child)
    [] t = type_dirent  -> svn_dirent_is_ancestor(b, parent, child)

SkipAncestor(b, t, parent, child) ==
  CASE t = type_uri     -> svn_url_skip_ancestor(b, parent, child)
    [] t = type_relpath -> svn_relpath_skip_ancestor(b, parent, child)
    [] t = type_dirent  -> svn_dirent_skip_ancestor(b, parent, child)

LongestAncestor(b, t, path1, path2) ==
  CASE t = type_uri     -> svn_url_get_longest_ancestor(b, path1, path2)
    [] t = type_relpath -> svn_relpath_get_longest_ancestor(b, path1, path2)
    [] t = type_dirent  -> svn_dirent_get_longest_ancestor(b, path1, path2)

(* join of a base of flavor t with a component: a dirent with a dirent, a  *)
(* relpath with a relpath, a URI with a relpath                            *)
Join(b, t, base, component) ==
  CASE t = type_uri     -> svn_url_join_relpath(b, base, component)
    [] t = type_relpath -> svn_relpath_join(b, base, component)
    [] t = type_dirent  -> svn_dirent_join(b, base, component)

ComponentType(t) == IF t = type_uri THEN type_relpath ELSE t

(* svn_dirent_split, svn_relpath_split, svn_url_split: dirname, basename *)
Split(b, t, path) ==
  CASE t = type_uri ->
         <<svn_url_dirname(b, path), svn_url_basename(b, path)>>
    [] t = type_relpath ->
         <<svn_relpath_dirname(b, path), svn_relpath_basename(b, path)>>
    [] t = type_dirent ->
         <<svn_dirent_dirname(b, path), svn_dirent_basename(b, path)>>

IsRoot(b, t, path) ==
  CASE t = type_uri     -> svn_url_is_root(path, Len(path))
    [] t = type_relpath -> FALSE
    [] t = type_dirent  -> svn_dirent_is_root(b, path, Len(path))

-----------------------------------------------------------------------------
(* Condensing a list of targets *)

(* svn_dirent_get_absolute() of a dirent that is absolute already: the      *)
(* merge with the current directory leaves it as it is, and the result is   *)
(* canonicalized                                                            *)
svn_dirent_get_absolute(b, relative) == svn_dirent_canonicalize(b, relative)

(* abs_targets / uri_targets *)
condense_absolute(b, t, targets) ==
  [k \in 1 .. Len(targets) |->
     IF t = type_uri THEN svn_url_canonicalize(b, targets[k])
     ELSE svn_dirent_get_absolute(b, targets[k])]

(* the loop that narrows *pcommon by every target from index i on *)
RECURSIVE condense_common(_, _, _, _, _)
condense_common(b, t, abs, i, common) ==
  IF i >= Len(abs) THEN common
  ELSE condense_common(b, t, abs, i + 1,
                       LongestAncestor(b, t, common, abs[i + 1]))

(* first pass, the body for one pair i < j with neither removed on entry;  *)
(* st holds the array removed, indexed from 0, and num_condensed            *)
condense_mark(abs, i, j, st, ancestor) ==
  IF ancestor = << >> THEN st
  ELSE IF ancestor = abs[i + 1]
    THEN [removed |-> [st.removed EXCEPT ![j] = TRUE],
          num_condensed |-> st.num_condensed - 1]
  ELSE IF ancestor = abs[j + 1]
    THEN [removed |-> [st.removed EXCEPT ![i] = TRUE],
          num_condensed |-> st.num_condensed - 1]
  ELSE st

(* first pass, the inner loop over j; removed[i] is not read again *)
RECURSIVE condense_inner(_, _, _, _, _, _)
condense_inner(b, t, abs, i, j, st) ==
  IF j >= Len(abs) THEN st
  ELSE IF st.removed[j] THEN condense_inner(b, t, abs, i, j + 1, st)
  ELSE condense_inner(b, t, abs, i, j + 1,
         condense_mark(abs, i, j, st,
                       LongestAncestor(b, t, abs[i + 1], abs[j + 1])))

(* first pass, the outer loop over i *)
RECURSIVE condense_first_pass(_, _, _, _, _)
condense_first_pass(b, t, abs, i, st) ==
  IF i >= Len(abs) THEN st
  ELSE IF st.removed[i] THEN condense_first_pass(b, t, abs, i + 1, st)
  ELSE condense_first_pass(b, t, abs, i + 1,
                           condense_inner(b, t, abs, i, i + 1, st))

(* second pass: a target equal to *pcommon and not yet removed is removed *)
condense_second_pass(abs, common, st) ==
  [removed |-> [k \in DOMAIN st.removed |->
                  st.removed[k] \/ abs[k + 1] = common],
   num_condensed |-> st.num_condensed
       - Cardinality({k \in DOMAIN st.removed :
                         ~st.removed[k] /\ abs[k + 1] = common})]

(* rel_item of one target that is kept *)
condense_rel_item(b, t, common, item) ==
  IF Len(common) = 0 THEN item
  ELSE IF \/ t = type_uri /\ At(item, Len(common)) = "/"
          \/ /\ At(item, Len(common)) # NUL
             /\ ~IsRoot(b, t, common)
    THEN StrFrom(item, Len(common) + 1)
    ELSE StrFrom(item, Len(common))

(* the loop that copies the targets not removed, from index i on *)
RECURSIVE condense_copy(_, _, _, _, _, _)
condense_copy(b, t, abs, common, removed, i) ==
  IF i >= Len(abs) THEN << >>
  ELSE IF removed[i] THEN condense_copy(b, t, abs, common, removed, i + 1)
  ELSE <<condense_rel_item(b, t, common, abs[i + 1])>>
         \o condense_copy(b, t, abs, common, removed, i + 1)

(* the two passes that mark redundant targets, entered with nothing        *)
(* removed and num_condensed the number of targets                          *)
condense_marks(b, t, abs, common, remove_redundancies) ==
  IF remove_redundancies
    THEN condense_second_pass(abs, common,
           condense_first_pass(b, t, abs, 0,
             [removed |-> [k \in 0 .. Len(abs) - 1 |-> FALSE],
              num_condensed |-> Len(abs)]))
    ELSE [removed |-> [k \in 0 .. Len(abs) - 1 |-> FALSE],
          num_condensed |-> Len(abs)]

(* the result array, created with room for num_condensed elements *)
condense_result(b, t, abs, common, st) ==
  [common |-> common,
   targets |-> condense_copy(b, t, abs, common, st.removed, 0),
   num_condensed |-> st.num_condensed]

(* svn_dirent_condense_targets (t = type_dirent) and                        *)
(* svn_url_condense_targets (t = type_uri), called with pcondensed_targets  *)
(* not NULL                                                                 *)
condense_targets(b, t, targets, remove_redundancies) ==
  IF Len(targets) <= 0
    THEN [common |-> NULLPTR, targets |-> NULLPTR, num_condensed |-> 0]
  ELSE IF Len(targets) = 1
    THEN [common |-> condense_absolute(b, t, targets)[1],
          targets |-> << >>, num_condensed |-> 1]
  ELSE LET abs == condense_absolute(b, t, targets)
           common == condense_common(b, t, abs, 1, abs[1])
       IN condense_result(b, t, abs, common,
            condense_marks(b, t, abs, common, remove_redundancies))

-----------------------------------------------------------------------------
(* The tree delta of delta.c.  A directory or file is a record with its     *)
(* kind, version, property list, entries and contents.  A property list is  *)
(* a sequence of name and value, sorted by name; an entry list is a         *)
(* sequence of name, node id and entry property list, sorted by name.  A    *)
(* name is a positive number, ordered as svn_fs_compare_prop_names and      *)
(* svn_fs_compare_dirents order the names; the zero that ends a name array  *)
(* is the index past the end of the sequence.  A node id is a pair of a     *)
(* line of history and a revision on it.                                    *)
(* The editor is recorded as the sequence of the calls made to it.  A baton *)
(* is the path of the node from the root of the edit.  An editor is a       *)
(* record of the callback that fails, if any, and the error it fails with.  *)
(* The context c carries the editor, as struct context does, and junk: the  *)
(* value a function with an empty body returns.                             *)
(* The outcome of a function is a record of the editor calls it made, of    *)
(* its trace, and of the error it returned.  The trace holds the editor     *)
(* calls and, between them, the opening and closing of the handles of the   *)
(* filesystem and the creation and destruction of the pool.                 *)

(* a null value is "NULL", a null path is the path of the name 0, a null   *)
(* window is 0, and the null property list is the list of the name 0        *)
NoError == "SVN_NO_ERROR"
NullProplist == <<[name |-> 0, value |-> "NULL"]>>

(* a call of a function of svn_delta_edit_fns_t, or of the window handler *)
EditorCall(call, baton, name, path, rev) ==
  [call |-> call, baton |-> baton, name |-> name, path |-> path, rev |-> rev,
   pname |-> 0, value |-> "", window |-> 0]

(* SVN_ERR around each of the editor calls in turn: the calls up to the    *)
(* first one the editor fails, whose error is returned, or all of them      *)
Emit(c, calls) ==
  IF \E k \in 1 .. Len(calls) : calls[k].call = c.editor.fails
    THEN [calls |-> SubSeq(calls, 1, CHOOSE k \in 1 .. Len(calls) :
                      /\ calls[k].call = c.editor.fails
                      /\ \A j \in 1 .. k - 1 : calls[j].call # c.editor.fails),
          trace |-> SubSeq(calls, 1, CHOOSE k \in 1 .. Len(calls) :
                      /\ calls[k].call = c.editor.fails
                      /\ \A j \in 1 .. k - 1 : calls[j].call # c.editor.fails),
          err |-> c.editor.error]
    ELSE [calls |-> calls, trace |-> calls, err |-> NoError]

(* a function of the filesystem on the handle of a role, ancestor or       *)
(* target, of the node of a baton: an event of the trace that holds the     *)
(* role, or the error when the function fails                               *)
Handle(call, baton, role, err) ==
  [calls |-> << >>,
   trace |-> <<[EditorCall(call, baton, 0, << >>, 0)
                  EXCEPT !.value = IF err = NoError THEN role ELSE err]>>,
   err |-> err]

(* SVN_ERR (first); then second *)
Then(first, second) ==
  IF first.err # NoError THEN first
  ELSE [calls |-> first.calls \o second.calls,
        trace |-> first.trace \o second.trace, err |-> second.err]

(* svn_fs_id_distance: -1 for unrelated nodes, else the number of          *)
(* revisions between two nodes of one line of history                       *)
svn_fs_id_distance(a, b) ==
  IF a[1] # b[1] THEN -1 ELSE IF a[2] >= b[2] THEN a[2] - b[2] ELSE b[2] - a[2]

(* delta_proplists(): the merge loop from si, ti on; change is the call of *)
(* change_fn on object, to be completed with the name and the value         *)
RECURSIVE proplist_walk(_, _, _, _, _)
proplist_walk(source, target, si, ti, change) ==
  IF si >= Len(source) /\ ti >= Len(target) THEN << >>
  ELSE IF /\ si < Len(source) /\ ti < Len(target)
          /\ source[si + 1].name = target[ti + 1].name
    THEN (IF source[si + 1].value # target[ti + 1].value
            THEN <<[change EXCEPT !.pname = target[ti + 1].name,
                                  !.value = target[ti + 1].value]>>
            ELSE << >>)
         \o proplist_walk(source, target, si + 1, ti + 1, change)
  ELSE IF /\ si < Len(source)
          /\ (ti >= Len(target) \/ source[si + 1].name < target[ti + 1].name)
    THEN <<[change EXCEPT !.pname = source[si + 1].name,
                          !.value = "NULL"]>>
         \o proplist_walk(source, target, si + 1, ti, change)
  ELSE <<[change EXCEPT !.pname = target[ti + 1].name,
                        !.value = target[ti + 1].value]>>
       \o proplist_walk(source, target, si, ti + 1, change)

(* delta_proplists that walks a zero SOURCE like any other list *)
delta_proplists_unguarded(source, target, change) ==
  proplist_walk(source, target, 0, 0, change)

(* delta_proplists that reports every property of the target, changed or  *)
(* not                                                                      *)
delta_proplists_unconditional(source, target, change) ==
  [k \in 1 .. Len(target) |->
     [change EXCEPT !.pname = target[k].name, !.value = target[k].value]]

delta_proplists(source, target, change) ==
  proplist_walk(IF source = NullProplist THEN << >> ELSE source, target,
                0, 0, change)

(* svn_txdelta and svn_txdelta_next_window: the windows of the stream that *)
(* turns the ancestor's contents into the target's, one for each piece of   *)
(* the target's contents                                                    *)
svn_txdelta(ancestor_contents, target_contents) == target_contents

(* send_text_delta that stops at the last window of the stream without    *)
(* handing the handler the null window                                      *)
send_text_delta_unterminated(file_baton, ancestor_contents, target_contents) ==
  <<EditorCall("apply_textdelta", file_baton, 0, << >>, 0)>>
  \o [k \in 1 .. Len(svn_txdelta(ancestor_contents, target_contents)) |->
        [EditorCall("delta_handler", file_baton, 0, << >>, 0)
           EXCEPT !.window = svn_txdelta(ancestor_contents,
                                         target_contents)[k]]]

(* send_text_delta(): apply_textdelta, then the handler on every window    *)
(* and on the null window that ends the stream                              *)
send_text_delta(file_baton, ancestor_contents, target_contents) ==
  <<EditorCall("apply_textdelta", file_baton, 0, << >>, 0)>>
  \o [k \in 1 .. Len(svn_txdelta(ancestor_contents, target_contents)) |->
        [EditorCall("delta_handler", file_baton, 0, << >>, 0)
           EXCEPT !.window = svn_txdelta(ancestor_contents,
                                         target_contents)[k]]]
  \o <<EditorCall("delta_handler", file_baton, 0, << >>, 0)>>

(* delta_files() with delta_file_props() *)
delta_files(c, file_baton, ancestor_file, target_file) ==
  Emit(c, delta_proplists(ancestor_file.props, target_file.props,
                       EditorCall("change_file_prop", file_baton, 0, << >>, 0))
       \o send_text_delta(file_baton, ancestor_file.contents,
                          target_file.contents))

(* file_from_scratch(): no ancestor file, and null_read_fn as its contents *)
file_from_scratch(c, file_baton, target_file) ==
  Emit(c, delta_proplists(NullProplist, target_file.props,
                       EditorCall("change_file_prop", file_baton, 0, << >>, 0))
       \o send_text_delta(file_baton, << >>, target_file.contents))

(* add(): the body is empty, so no editor call is made and the value       *)
(* returned is whatever the return register holds: junk                     *)
add(c, dir_baton, source, source_path, target, name) ==
  [calls |-> << >>, trace |-> << >>, err |-> c.junk]

(* dir_from_scratch(): an empty body as well *)
dir_from_scratch(c, dir_baton, target) ==
  [calls |-> << >>, trace |-> << >>, err |-> c.junk]

(* replace(): the loop that finds the closest relative of target_entry     *)
(* among source_entries[i..]; best_distance is read only when best is set   *)
RECURSIVE replace_best(_, _, _, _, _)
replace_best(source_entries, target_entry, i, best, best_distance) ==
  IF i >= Len(source_entries) THEN best
  ELSE IF /\ svn_fs_id_distance(target_entry.id, source_entries[i + 1].id)
               # -1
          /\ \/ best = -1
             \/ svn_fs_id_distance(target_entry.id, source_entries[i + 1].id)
                  < best_distance
    THEN replace_best(source_entries, target_entry, i + 1, i,
           svn_fs_id_distance(target_entry.id, source_entries[i + 1].id))
    ELSE replace_best(source_entries, target_entry, i + 1, best,
                      best_distance)

(* the revisions 0 .. MaxRev of the first line of history *)
MaxRev == 2

(* a property and a directory entry *)
Prop(name, value) == [name |-> name, value |-> value]
Dirent(name, id, props) == [name |-> name, id |-> id, props |-> props]

(* The nodes of the filesystem by id.  Line 1 is a file: an odd revision   *)
(* changes the value of property 1 only, an even one adds property 2 and a  *)
(* piece of contents.  Line 2 is an empty file without properties.  Lines   *)
(* 3 and 4 are directories, line 4 holding line 3.                          *)
NodeIds ==
  {<<1, r>> : r \in 0 .. MaxRev} \cup {<<2, 0>>}
    \cup {<<3, 0>>, <<3, 1>>, <<4, 0>>, <<4, 1>>}

Nodes ==
  [id \in NodeIds |->
     IF id[1] = 1
       THEN [kind |-> "file", version |-> id[2],
             props |-> <<Prop(1, IF id[2] % 2 = 0 THEN "v" ELSE "w")>>
                         \o (IF id[2] >= 2 THEN <<Prop(2, "v")>> ELSE << >>),
             entries |-> << >>,
             contents |-> [k \in 1 .. (id[2] \div 2) + 1 |-> k]]
     ELSE IF id[1] = 2
       THEN [kind |-> "file", version |-> 0, props |-> << >>,
             entries |-> << >>, contents |-> << >>]
     ELSE [kind |-> "dir", version |-> id[2],
           props |-> IF id[2] = 0 THEN << >> ELSE <<Prop(1, "v")>>,
           entries |->
             IF id = <<3, 0>> THEN <<Dirent(1, <<1, 0>>, << >>)>>
             ELSE IF id = <<3, 1>>
               THEN <<Dirent(1, <<1, 1>>, <<Prop(1, "v")>>),
                      Dirent(2, <<2, 0>>, << >>)>>
             ELSE IF id = <<4, 0>> THEN <<Dirent(1, <<3, 0>>, << >>)>>
             ELSE <<Dirent(1, <<3, 1>>, << >>), Dirent(2, <<1, 0>>, << >>)>>,
           contents |-> << >>]]

(* svn_fs_type, svn_fs_open_file, svn_fs_open_subdir: the node of the      *)
(* entry called name in dir                                                 *)
svn_fs_open(dir, name) ==
  Nodes[(CHOOSE e \in Range(dir.entries) : e.name = name).id]

RECURSIVE delta_dirs(_, _, _, _, _)

(* replace_from_scratch() *)
replace_from_scratch(c, dir_baton, target, name) ==
  IF svn_fs_open(target, name).kind = "file"
    THEN Then(Handle("svn_fs_open_file", dir_baton \o <<name>>, "target",
                     NoError),
         Then(Emit(c, <<EditorCall("replace_file", dir_baton, name,
                                   <<0>>, 0)>>),
         Then(file_from_scratch(c, dir_baton \o <<name>>,
                                svn_fs_open(target, name)),
         Then(Handle("svn_fs_close_file", dir_baton \o <<name>>, "target",
                     NoError),
              Emit(c, <<EditorCall("close_file", dir_baton \o <<name>>, 0,
                                   << >>, 0)>>)))))
    ELSE Then(Handle("svn_fs_open_subdir", dir_baton \o <<name>>, "target",
                     NoError),
         Then(Emit(c, <<EditorCall("replace_directory", dir_baton, name,
                                   <<0>>, 0)>>),
         Then(dir_from_scratch(c, dir_baton \o <<name>>,
                               svn_fs_open(target, name)),
         Then(Handle("svn_fs_close_dir", dir_baton \o <<name>>, "target",
                     NoError),
              Emit(c, <<EditorCall("close_directory", dir_baton \o <<name>>,
                                   0, << >>, 0)>>)))))

(* replace_related(); svn_fs_open_file fails on a directory and            *)
(* svn_fs_open_subdir on a file                                             *)
replace_related(c, dir_baton, target, target_name, ancestor_dir, ancestor_dir_path, ancestor_name) ==
  IF svn_fs_open(target, target_name).kind = "file"
    THEN Then(Handle("svn_fs_open_file", dir_baton \o <<target_name>>,
                     "ancestor",
                     IF svn_fs_open(ancestor_dir, ancestor_name).kind = "file"
                       THEN NoError ELSE "SVN_ERR_FS_NOT_FILE"),
         Then(Handle("svn_fs_open_file", dir_baton \o <<target_name>>,
                     "target", NoError),
         Then(Emit(c, <<EditorCall("replace_file", dir_baton, target_name,
                          ancestor_dir_path \o <<ancestor_name>>,
                          svn_fs_open(ancestor_dir, ancestor_name).version)>>),
         Then(delta_files(c, dir_baton \o <<target_name>>,
                          svn_fs_open(ancestor_dir, ancestor_name),
                          svn_fs_open(target, target_name)),
         Then(Handle("svn_fs_close_file", dir_baton \o <<target_name>>,
                     "ancestor", NoError),
         Then(Handle("svn_fs_close_file", dir_baton \o <<target_name>>,
                     "target", NoError),
              Emit(c, <<EditorCall("close_file",
                                   dir_baton \o <<target_name>>, 0,
                                   << >>, 0)>>)))))))
    ELSE Then(Handle("svn_fs_open_subdir", dir_baton \o <<target_name>>,
                     "ancestor",
                     IF svn_fs_open(ancestor_dir, ancestor_name).kind = "dir"
                       THEN NoError ELSE "SVN_ERR_FS_NOT_DIRECTORY"),
         Then(Handle("svn_fs_open_subdir", dir_baton \o <<target_name>>,
                     "target", NoError),
         Then(Emit(c, <<EditorCall("replace_directory", dir_baton,
                          target_name, ancestor_dir_path \o <<ancestor_name>>,
                          svn_fs_open(ancestor_dir, ancestor_name).version)>>),
         Then(delta_dirs(c, dir_baton \o <<target_name>>,
                         svn_fs_open(ancestor_dir, ancestor_name),
                         ancestor_dir_path \o <<ancestor_name>>,
                         svn_fs_open(target, target_name)),
         Then(Handle("svn_fs_close_dir", dir_baton \o <<target_name>>,
                     "ancestor", NoError),
         Then(Handle("svn_fs_close_dir", dir_baton \o <<target_name>>,
                     "target", NoError),
              Emit(c, <<EditorCall("close_directory",
                                   dir_baton \o <<target_name>>, 0,
                                   << >>, 0)>>)))))))

(* replace(), with best as the loop over the source entries leaves it *)
replace(c, dir_baton, source, source_path, target, target_entry) ==
  LET best == replace_best(source.entries, target_entry, 0, -1, 0)
  IN  IF best = -1
        THEN replace_from_scratch(c, dir_baton, target, target_entry.name)
        ELSE replace_related(c, dir_baton, target, target_entry.name,
                             source, source_path,
                             source.entries[best + 1].name)

(* delta_dirs(): the loop over the entries from si, ti on, with            *)
(* delta_dirent_props() and delete(); replace is handed the source entry    *)
RECURSIVE delta_dirs_walk(_, _, _, _, _, _, _)
delta_dirs_walk(c, dir_baton, source, source_path, target, si, ti) ==
  IF si >= Len(source.entries) /\ ti >= Len(target.entries) THEN Emit(c, << >>)
  ELSE IF /\ si < Len(source.entries) /\ ti < Len(target.entries)
          /\ source.entries[si + 1].name = target.entries[ti + 1].name
    THEN Then(Emit(c, delta_proplists(source.entries[si + 1].props,
                     target.entries[ti + 1].props,
                     EditorCall("change_dirent_prop", dir_baton,
                                source.entries[si + 1].name, << >>, 0))),
         Then(IF source.entries[si + 1].id # target.entries[ti + 1].id
                THEN replace(c, dir_baton, source, source_path, target,
                             source.entries[si + 1])
                ELSE Emit(c, << >>),
              delta_dirs_walk(c, dir_baton, source, source_path, target,
                              si + 1, ti + 1)))
  ELSE IF /\ si < Len(source.entries)
          /\ \/ ti >= Len(target.entries)
             \/ source.entries[si + 1].name < target.entries[ti + 1].name
    THEN Then(Emit(c, <<EditorCall("delete", dir_baton,
                                source.entries[si + 1].name, << >>, 0)>>),
              delta_dirs_walk(c, dir_baton, source, source_path, target,
                              si + 1, ti))
  ELSE Then(add(c, dir_baton, source, source_path, target,
                target.entries[ti + 1].name),
            delta_dirs_walk(c, dir_baton, source, source_path, target,
                            si, ti + 1))

(* delta_dirs that compares the property lists after the entries *)
delta_dirs_props_last(c, dir_baton, source, source_path, target) ==
  Then(delta_dirs_walk(c, dir_baton, source, source_path, target, 0, 0),
       Emit(c, delta_proplists(source.props, target.props,
              EditorCall("change_dir_prop", dir_baton, 0, << >>, 0))))

(* delta_dirs() with delta_dir_props() *)
delta_dirs(c, dir_baton, source, source_path, target) ==
  Then(Emit(c, delta_proplists(source.props, target.props,
              EditorCall("change_dir_prop", dir_baton, 0, << >>, 0))),
       delta_dirs_walk(c, dir_baton, source, source_path, target, 0, 0))

(* svn_fs_dir_delta that returns without closing the root directory *)
svn_fs_dir_delta_unclosed(junk, source, target, editor) ==
  [Then(Emit([editor |-> editor, junk |-> junk],
             <<EditorCall("replace_root", << >>, 0, <<0>>, 0)>>),
        delta_dirs([editor |-> editor, junk |-> junk], << >>, source, << >>,
                   target))
   EXCEPT !.trace = <<EditorCall("svn_pool_create", << >>, 0, << >>, 0)>>
                    \o @
                    \o <<EditorCall("apr_destroy_pool", << >>, 0, << >>, 0)>>]

(* svn_fs_dir_delta that leaves through SVN_ERR, past the label error *)
svn_fs_dir_delta_returning(junk, source, target, editor) ==
  Then(Handle("svn_pool_create", << >>, "", NoError),
  Then(Emit([editor |-> editor, junk |-> junk],
            <<EditorCall("replace_root", << >>, 0, <<0>>, 0)>>),
  Then(delta_dirs([editor |-> editor, junk |-> junk], << >>, source, << >>,
                  target),
  Then(Emit([editor |-> editor, junk |-> junk],
            <<EditorCall("close_directory", << >>, 0, << >>, 0)>>),
       Handle("apr_destroy_pool", << >>, "", NoError)))))

(* svn_fs_dir_delta(); the root baton is the empty path, and every path    *)
(* through the function ends at the label error, where the pool is          *)
(* destroyed                                                                *)
svn_fs_dir_delta(junk, source, target, editor) ==
  [Then(Emit([editor |-> editor, junk |-> junk],
             <<EditorCall("replace_root", << >>, 0, <<0>>, 0)>>),
   Then(delta_dirs([editor |-> editor, junk |-> junk], << >>, source, << >>,
                   target),
        Emit([editor |-> editor, junk |-> junk],
             <<EditorCall("close_directory", << >>, 0, << >>, 0)>>)))
   EXCEPT !.trace = <<EditorCall("svn_pool_create", << >>, 0, << >>, 0)>>
                    \o @
                    \o <<EditorCall("apr_destroy_pool", << >>, 0, << >>, 0)>>]

(* the editor none of whose callbacks fails *)
SoundEditor == [fails |-> "none", error |-> NoError]

(* the directories handed to svn_fs_dir_delta: one of two property lists,  *)
(* and under each of the names 1 and 2 no entry or an entry for a node      *)
TopDirs ==
  {[kind |-> "dir", version |-> 0, props |-> props, entries |-> e1 \o e2,
    contents |-> << >>] :
     props \in {<< >>, <<Prop(1, "v")>>},
     e1 \in {<< >>} \cup {<<Dirent(1, id, << >>)>> : id \in NodeIds}
              \cup {<<Dirent(1, <<1, 0>>, <<Prop(1, "v")>>)>>},
     e2 \in {<< >>} \cup {<<Dirent(2, id, << >>)>> : id \in NodeIds}}

-----------------------------------------------------------------------------
(* The svn:externals property of externals.c.  A description, a line and a *)
(* part of a line are C strings; the newline, the carriage return and the   *)
(* tab are the characters "NL", "CR" and "TAB".  A table of external items  *)
(* is the set of its items, one for each target_dir.                        *)

(* svn_cstring_split with chop_whitespace: a token without the white space *)
(* at its two ends                                                          *)
chop_whitespace(token) ==
  IF \A k \in 1 .. Len(token) : token[k] \in {" ", "TAB", "NL", "CR"}
    THEN << >>
    ELSE SubSeq(token,
           CHOOSE k \in 1 .. Len(token) :
             /\ token[k] \notin {" ", "TAB", "NL", "CR"}
             /\ \A j \in 1 .. k - 1 : token[j] \in {" ", "TAB", "NL", "CR"},
           CHOOSE k \in 1 .. Len(token) :
             /\ token[k] \notin {" ", "TAB", "NL", "CR"}
             /\ \A j \in k + 1 .. Len(token) :
                  token[j] \in {" ", "TAB", "NL", "CR"})

(* svn_cstring_split (input, sep_chars, TRUE, pool) from input[i] on, with *)
(* the token in progress: the tokens between the separators, chopped, the   *)
(* empty ones left out                                                      *)
RECURSIVE svn_cstring_split(_, _, _, _)
svn_cstring_split(input, sep_chars, i, token) ==
  IF i > Len(input)
    THEN IF chop_whitespace(token) = << >> THEN << >>
         ELSE <<chop_whitespace(token)>>
  ELSE IF input[i] \in sep_chars
    THEN (IF chop_whitespace(token) = << >> THEN << >>
          ELSE <<chop_whitespace(token)>>)
         \o svn_cstring_split(input, sep_chars, i + 1, << >>)
  ELSE svn_cstring_split(input, sep_chars, i + 1, Append(token, input[i]))

(* SVN_STR_TO_REV, which is atol: the number of the digits str[i..] starts *)
(* with, after the number acc of the digits before them                     *)
RECURSIVE SVN_STR_TO_REV(_, _, _)
SVN_STR_TO_REV(str, i, acc) ==
  IF IsDigit(At(str, i))
    THEN SVN_STR_TO_REV(str, i + 1, acc * 10 + IndexIn(Digits, At(str, i)) - 1)
    ELSE acc

(* parse_externals_description(): the label parse_error, as the item of a  *)
(* line that is no item                                                     *)
parse_error ==
  [target_dir |-> << >>, url |-> << >>,
   revision |-> [kind |-> "parse_error", number |-> -1]]

(* parse_externals_description(): the item of the parts of one line, or    *)
(* parse_error.  The number of a head revision is not set; it is -1 here.   *)
external_item(line_parts) ==
  IF Len(line_parts) < 2 THEN parse_error
  ELSE IF Len(line_parts) = 2
    THEN [target_dir |-> line_parts[1], url |-> line_parts[2],
          revision |-> [kind |-> "svn_client_revision_head", number |-> -1]]
  ELSE IF Len(line_parts) = 3 \/ Len(line_parts) = 4
    THEN IF At(line_parts[2], 0) # "-" \/ At(line_parts[2], 1) # "r"
           THEN parse_error
         ELSE IF Len(line_parts) = 3
           THEN IF Len(line_parts[2]) < 3 THEN parse_error
                ELSE [target_dir |-> line_parts[1], url |-> line_parts[3],
                      revision |->
                        [kind |-> "svn_client_revision_number",
                         number |->
                           SVN_STR_TO_REV(StrFrom(line_parts[2], 2), 0, 0)]]
         ELSE IF Len(line_parts[3]) < 1 THEN parse_error
              ELSE [target_dir |-> line_parts[1], url |-> line_parts[4],
                    revision |->
                      [kind |-> "svn_client_revision_number",
                       number |-> SVN_STR_TO_REV(line_parts[3], 0, 0)]]
  ELSE parse_error

(* parse_externals_description(): the loop over the lines from lines[i]    *)
(* on, with the table built so far; externals_p is what *EXTERNALS_P holds  *)
RECURSIVE parse_externals_lines(_, _, _, _)
parse_externals_lines(externals_p, lines, i, externals) ==
  IF i > Len(lines) THEN [err |-> NoError, externals_p |-> externals]
  ELSE IF At(lines[i], 0) = "#"
    THEN parse_externals_lines(externals_p, lines, i + 1, externals)
  ELSE IF external_item(svn_cstring_split(lines[i], {" ", "TAB"}, 1, << >>))
            = parse_error
    THEN [err |-> "SVN_ERR_CLIENT_INVALID_EXTERNALS_DESCRIPTION",
          externals_p |-> externals_p]
  ELSE parse_externals_lines(externals_p, lines, i + 1,
         {e \in externals :
            e.target_dir
              # external_item(svn_cstring_split(lines[i], {" ", "TAB"},
                                                1, << >>)).target_dir}
           \cup {external_item(svn_cstring_split(lines[i], {" ", "TAB"},
                                                 1, << >>))})

parse_externals_description(externals_p, desc) ==
  parse_externals_lines(externals_p,
                        svn_cstring_split(desc, {"NL", "CR"}, 1, << >>),
                        1, {})

(* a call of a function of the working copy, the filesystem or the client  *)
(* library, whose outcome env holds; the outcome of the caller holds the     *)
(* calls made and the error returned                                        *)
EnvCall(env, fn, path, item) ==
  [calls |-> <<[fn |-> fn, path |-> path, url |-> item.url,
                revision |-> item.revision]>>,
   trace |-> <<[fn |-> fn, path |-> path, url |-> item.url,
                revision |-> item.revision]>>,
   err |-> env[fn]]

(* svn_client__compare_revisions: the same kind, and the same number when  *)
(* the kind is a number                                                     *)
svn_client__compare_revisions(revision1, revision2) ==
  /\ revision1.kind = revision2.kind
  /\ revision1.kind = "svn_client_revision_number"
       => revision1.number = revision2.number

compare_external_items(new_item, old_item) ==
  ~ (\/ new_item.target_dir # old_item.target_dir
     \/ new_item.url # old_item.url
     \/ ~svn_client__compare_revisions(new_item.revision, old_item.revision))

(* handle_external_item_change that attempts the checkout whether or not   *)
(* the old directory could be removed                                       *)
handle_external_item_change_unchecked(b, ib, key, env) ==
  LET old_item == CHOOSE e \in ib.old_desc : e.target_dir = key
      new_item == CHOOSE e \in ib.new_desc : e.target_dir = key
  IN  IF ~(\E e \in ib.old_desc : e.target_dir = key)
        THEN IF ~(\E e \in ib.new_desc : e.target_dir = key)
          THEN [calls |-> << >>, trace |-> << >>, err |-> "ABORT"]
          ELSE Then(EnvCall(env, "svn_io_make_dir_recursively",
                      svn_dirent_dirname(b,
                        svn_dirent_join(b, ib.parent_dir,
                                        new_item.target_dir)),
                      parse_error),
                    EnvCall(env, "svn_client_checkout",
                      svn_dirent_join(b, ib.parent_dir, new_item.target_dir),
                      new_item))
      ELSE IF ~(\E e \in ib.new_desc : e.target_dir = key)
        THEN [EnvCall(env, "svn_wc_remove_from_revision_control",
                svn_dirent_join(b, ib.parent_dir, old_item.target_dir),
                parse_error)
              EXCEPT !.err = IF @ = "SVN_ERR_WC_LEFT_LOCAL_MOD"
                               THEN NoError ELSE @]
      ELSE IF ~compare_external_items(new_item, old_item)
        THEN [calls |->
                EnvCall(env, "svn_io_remove_dir",
                  svn_dirent_join(b, ib.parent_dir, old_item.target_dir),
                  parse_error).calls
                \o EnvCall(env, "svn_client_checkout",
                     svn_dirent_join(b, ib.parent_dir, new_item.target_dir),
                     new_item).calls,
              trace |->
                EnvCall(env, "svn_io_remove_dir",
                  svn_dirent_join(b, ib.parent_dir, old_item.target_dir),
                  parse_error).calls
                \o EnvCall(env, "svn_client_checkout",
                     svn_dirent_join(b, ib.parent_dir, new_item.target_dir),
                     new_item).calls,
              err |-> IF env["svn_io_remove_dir"] # NoError
                        THEN env["svn_io_remove_dir"]
                        ELSE env["svn_client_checkout"]]
      ELSE [calls |-> << >>, trace |-> << >>, err |-> NoError]

(* handle_external_item_change that returns every error of the removal    *)
(* from revision control                                                    *)
handle_external_item_change_strict(b, ib, key, env) ==
  LET old_item == CHOOSE e \in ib.old_desc : e.target_dir = key
      new_item == CHOOSE e \in ib.new_desc : e.target_dir = key
  IN  IF ~(\E e \in ib.old_desc : e.target_dir = key)
        THEN IF ~(\E e \in ib.new_desc : e.target_dir = key)
          THEN [calls |-> << >>, trace |-> << >>, err |-> "ABORT"]
          ELSE Then(EnvCall(env, "svn_io_make_dir_recursively",
                      svn_dirent_dirname(b,
                        svn_dirent_join(b, ib.parent_dir,
                                        new_item.target_dir)),
                      parse_error),
                    EnvCall(env, "svn_client_checkout",
                      svn_dirent_join(b, ib.parent_dir, new_item.target_dir),
                      new_item))
      ELSE IF ~(\E e \in ib.new_desc : e.target_dir = key)
        THEN EnvCall(env, "svn_wc_remove_from_revision_control",
               svn_dirent_join(b, ib.parent_dir, old_item.target_dir),
               parse_error)
      ELSE IF ~compare_external_items(new_item, old_item)
        THEN Then(EnvCall(env, "svn_io_remove_dir",
                    svn_dirent_join(b, ib.parent_dir, old_item.target_dir),
                    parse_error),
                  EnvCall(env, "svn_client_checkout",
                    svn_dirent_join(b, ib.parent_dir, new_item.target_dir),
                    new_item))
      ELSE [calls |-> << >>, trace |-> << >>, err |-> NoError]

(* handle_external_item_change(): a null table holds no item; the paths    *)
(* are joined and split as svn_dirent_join and svn_dirent_dirname do; the   *)
(* assertion aborts when neither table holds the key                        *)
handle_external_item_change(b, ib, key, env) ==
  LET old_item == CHOOSE e \in ib.old_desc : e.target_dir = key
      new_item == CHOOSE e \in ib.new_desc : e.target_dir = key
  IN  IF ~(\E e \in ib.old_desc : e.target_dir = key)
        THEN IF ~(\E e \in ib.new_desc : e.target_dir = key)
          THEN [calls |-> << >>, trace |-> << >>, err |-> "ABORT"]
          ELSE Then(EnvCall(env, "svn_io_make_dir_recursively",
                      svn_dirent_dirname(b,
                        svn_dirent_join(b, ib.parent_dir,
                                        new_item.target_dir)),
                      parse_error),
                    EnvCall(env, "svn_client_checkout",
                      svn_dirent_join(b, ib.parent_dir, new_item.target_dir),
                      new_item))
      ELSE IF ~(\E e \in ib.new_desc : e.target_dir = key)
        THEN [EnvCall(env, "svn_wc_remove_from_revision_control",
                svn_dirent_join(b, ib.parent_dir, old_item.target_dir),
                parse_error)
              EXCEPT !.err = IF @ = "SVN_ERR_WC_LEFT_LOCAL_MOD"
                               THEN NoError ELSE @]
      ELSE IF ~compare_external_items(new_item, old_item)
        THEN Then(EnvCall(env, "svn_io_remove_dir",
                    svn_dirent_join(b, ib.parent_dir, old_item.target_dir),
                    parse_error),
                  EnvCall(env, "svn_client_checkout",
                    svn_dirent_join(b, ib.parent_dir, new_item.target_dir),
                    new_item))
      ELSE [calls |-> << >>, trace |-> << >>, err |-> NoError]

-----------------------------------------------------------------------------
(* Bounded inputs *)

MaxRawLen == 3
MaxCanonLen == 3
MaxComponents == 3

Seqs(A, n) == UNION {[1 .. k -> A] : k \in 0 .. n}

Concat(P, S) == {p \o s : p \in P, s \in S}

(* raw strings handed to canonicalize and is_canonical: a prefix that sets *)
(* up a root, then every string over the alphabet up to MaxRawLen          *)
RawAlphabet(b, t) ==
  CASE t = type_uri     -> {"/", ".", "%", "2", "f", "F", " "}
    [] t = type_relpath -> {"a", "/", "."}
    [] t = type_dirent  -> IF b.dos THEN {"a", "A", "/", ".", ":"}
                                    ELSE {"a", "/", "."}

RawPrefixes(b, t) ==
  CASE t = type_uri ->
         { << >>,
           <<"a", ":", "/", "/">>,
           <<"A", ":", "/", "/", "A", "/">>,
           <<"a", ":", "/", "/", "A", "@", "A", "/">>,
           <<"f", "i", "l", "e", ":", "/", "/", "/">>,
           <<"f", "i", "l", "e", ":", "/", "/", "/", "a", ":">> }
    [] t = type_relpath -> { << >> }
    [] t = type_dirent ->
         IF b.dos THEN { << >>, <<"/", "/", "A", "/">> } ELSE { << >> }

RawPaths(b, t) == Concat(RawPrefixes(b, t), Seqs(RawAlphabet(b, t), MaxRawLen))

(* canonical paths handed to the other functions: a root, then every       *)
(* string over the alphabet up to MaxCanonLen, kept when is_canonical      *)
(* accepts it and canonicalize leaves it unchanged.  A URI is a URL, a     *)
(* path that starts with '/', or empty.                                    *)
CanonAlphabet(b, t) ==
  IF t = type_dirent /\ b.dos THEN {"a", "/", ":"} ELSE {"a", "/"}

CanonPrefixes(b, t) ==
  CASE t = type_uri ->
         { << >>,
           <<"/">>,
           <<"a", ":", "/", "/">>,
           <<"a", ":", "/", "/", "a", "/">>,
           <<"f", "i", "l", "e", ":", "/", "/">>,
           <<"f", "i", "l", "e", ":", "/", "/", "/">> }
    [] t = type_relpath -> { << >> }
    [] t = type_dirent ->
         IF b.dos
         THEN { << >>, <<"/">>, <<"A", ":">>, <<"A", ":", "/">>,
                <<"/", "/", "a", "/", "a">>, <<"/", "/", "a", "/", "a", "/">> }
         ELSE { << >>, <<"/">> }

InFlavor(t, path) ==
  t = type_uri => (path = << >> \/ At(path, 0) = "/" \/ svn_path_is_url(path))

CanonTable ==
  [b \in Builds |->
     [t \in PathTypes |->
        {x \in Concat(CanonPrefixes(b, t), Seqs(CanonAlphabet(b, t), MaxCanonLen)) :
            /\ InFlavor(t, x)
            /\ IsCanonical(b, t, x)
            /\ x = Canonicalize(b, t, x)}]]

CanonPaths(b, t) == CanonTable[b][t]

(* the base and the components handed to svn_dirent_join_many *)
JoinManyTable ==
  [b \in Builds |->
     {x \in { << >>, <<"a">>, <<"/">>, <<"/", "c">>, <<"A", ":">>,
              <<"A", ":", "/">>, <<"A", ":", "a">>,
              <<"/", "/", "a", "/", "b">> } :
         svn_dirent_is_canonical(b, x) /\ x = svn_dirent_canonicalize(b, x)}]

JoinManyPaths(b) == JoinManyTable[b]

MaxTargets == 3

(* the targets handed to condense_targets: absolute canonical dirents, or  *)
(* canonical URLs                                                           *)
CondenseTable ==
  [b \in Builds |->
     [t \in {type_dirent, type_uri} |->
        {x \in IF t = type_dirent
                 THEN { <<"/">>, <<"/", "x">>, <<"/", "x", "/", "a">>,
                        <<"/", "x", "/", "a", "/", "b">>,
                        <<"/", "x", "/", "c">>, <<"/", "y">>,
                        <<"A", ":", "/">>, <<"A", ":", "/", "a">>,
                        <<"A", ":", "/", "a", "/", "b">>, <<"B", ":", "/">>,
                        <<"/", "/", "h", "/", "s">>,
                        <<"/", "/", "h", "/", "s", "/", "a">> }
                 ELSE { <<"a", ":", "/", "/", "h">>,
                        <<"a", ":", "/", "/", "h", "/", "x">>,
                        <<"a", ":", "/", "/", "h", "/", "x", "/", "a">>,
                        <<"a", ":", "/", "/", "h", "/", "y">>,
                        <<"a", ":", "/", "/", "g">>,
                        <<"b", ":", "/", "/", "h">>,
                        <<"f", "i", "l", "e", ":", "/", "/">>,
                        <<"f", "i", "l", "e", ":", "/", "/", "/", "a">> } :
            /\ IsCanonical(b, t, x)
            /\ x = Canonicalize(b, t, x)
            /\ IF t = type_dirent THEN svn_dirent_is_absolute(b, x)
                                  ELSE svn_path_is_url(x)}]]

-----------------------------------------------------------------------------
(* The caller: one call of a public function at a time *)

Init ==
  /\ build \in Builds
  /\ pc = "idle"
  /\ op = "none"
  /\ type = "none"
  /\ args = << >>
  /\ ret = << >>

Call(o, t, a, r) ==
  /\ pc' = "done"
  /\ op' = o
  /\ type' = t
  /\ args' = a
  /\ ret' = r
  /\ UNCHANGED build

DoCanonicalize ==
  /\ pc = "idle"
  /\ \E t \in PathTypes : \E path \in RawPaths(build, t) :
       Call("canonicalize", t, <<path>>, Canonicalize(build, t, path))

DoIsCanonical ==
  /\ pc = "idle"
  /\ \E t \in PathTypes : \E path \in RawPaths(build, t) :
       Call("is_canonical", t, <<path>>, IsCanonical(build, t, path))

DoIsAbsolute ==
  /\ pc = "idle"
  /\ \E dirent \in RawPaths(build, type_dirent) :
       Call("is_absolute", type_dirent, <<dirent>>,
            svn_dirent_is_absolute(build, dirent))

Return ==
  /\ pc = "done"
  /\ pc' = "idle"
  /\ op' = "none"
  /\ type' = "none"
  /\ args' = << >>
  /\ ret' = << >>
  /\ UNCHANGED build

DoIsChild ==
  /\ pc = "idle"
  /\ \E t \in PathTypes : \E p1 \in CanonPaths(build, t) :
       \E p2 \in CanonPaths(build, t) :
         Call("is_child", t, <<p1, p2>>, IsChild(build, t, p1, p2))

DoIsAncestor ==
  /\ pc = "idle"
  /\ \E t \in PathTypes : \E p1 \in CanonPaths(build, t) :
       \E p2 \in CanonPaths(build, t) :
         Call("is_ancestor", t, <<p1, p2>>, IsAncestor(build, t, p1, p2))

DoSkipAncestor ==
  /\ pc = "idle"
  /\ \E t \in PathTypes : \E p1 \in CanonPaths(build, t) :
       \E p2 \in CanonPaths(build, t) :
         Call("skip_ancestor", t, <<p1, p2>>, SkipAncestor(build, t, p1, p2))

DoLongestAncestor ==
  /\ pc = "idle"
  /\ \E t \in PathTypes : \E p1 \in CanonPaths(build, t) :
       \E p2 \in CanonPaths(build, t) :
         Call("longest_ancestor", t, <<p1, p2>>,
              LongestAncestor(build, t, p1, p2))

DoJoin ==
  /\ pc = "idle"
  /\ \E t \in PathTypes : \E base \in CanonPaths(build, t) :
       \E component \in CanonPaths(build, ComponentType(t)) :
         Call("join", t, <<base, component>>, Join(build, t, base, component))

(* textbase.c.  An RA session is the URL it points at, who opened it and  *)
(* the pool it lives in; NoSession is the NULL session.  env names the one  *)
(* function that fails, if any, and the callback during which it does; an   *)
(* error carries the name of the function that raised it.                   *)
NoSession == [url |-> <<"NULL">>, owner |-> "NULL", pool |-> "NULL"]

Fails(env, fn, at) == env.fn = fn /\ env.at = at

(* the callback for the k-th file to hydrate.  b is the baton, with the     *)
(* sessions opened so far counted in opens and the notifications in trace.  *)
(* svn_client__ensure_ra_session_url points the session at url.             *)
textbase_hydrate_cb(b, repos_root_url, repos_relpath, k, env) ==
  LET url == repos_root_url \o <<"/">> \o repos_relpath
      opening == b.ra_session = NoSession
      opened == IF opening
                THEN [b EXCEPT !.ra_session =
                                 [url |-> url, owner |-> "internal",
                                  pool |-> b.result_pool],
                               !.opens = @ + 1]
                ELSE b
      notified == IF b.ctx.notify_func2
                  THEN [opened EXCEPT !.trace =
                          Append(@, "svn_wc_notify_hydrating_file")]
                  ELSE opened
  IN  IF opening /\ Fails(env, "svn_client__open_ra_session_internal", k)
      THEN [b EXCEPT !.err = "svn_client__open_ra_session_internal"]
      ELSE IF Fails(env, "svn_client__ensure_ra_session_url", k)
      THEN [notified EXCEPT !.err = "svn_client__ensure_ra_session_url"]
      ELSE IF Fails(env, "svn_ra_fetch_file_contents", k)
      THEN [notified EXCEPT !.ra_session.url = url,
                            !.err = "svn_ra_fetch_file_contents"]
      ELSE [notified EXCEPT !.ra_session.url = url]

(* svn_wc__textbase_sync: with allow_hydrate the callback is called on the  *)
(* files to hydrate, in order, and its error ends the walk; the walk's own  *)
(* error comes after env.at callbacks                                       *)
RECURSIVE svn_wc__textbase_sync(_, _, _, _, _)
svn_wc__textbase_sync(allow_hydrate, files, k, b, env) ==
  IF Fails(env, "svn_wc__textbase_sync", k - 1)
  THEN [b EXCEPT !.err = "svn_wc__textbase_sync"]
  ELSE IF ~allow_hydrate \/ k > Len(files) THEN b
  ELSE LET hydrated == textbase_hydrate_cb(b, files[k].root, files[k].relpath,
                                           k, env)
       IN  IF hydrated.err # NoError THEN hydrated
           ELSE svn_wc__textbase_sync(allow_hydrate, files, k + 1, hydrated,
                                      env)

svn_client__textbase_sync(bld, ra_session_p, local_abspath, allow_hydrate, ctx, ra_session, files, env) ==
  LET baton == [result_pool |-> IF ra_session_p THEN "result_pool"
                                ELSE "scratch_pool",
                ctx |-> ctx, ra_session |-> ra_session,
                opens |-> 0, trace |-> << >>, err |-> NoError]
      notifying == ctx.notify_func2 /\ allow_hydrate
      started == IF notifying
                 THEN [baton EXCEPT !.trace =
                         <<"svn_wc_notify_hydrating_start">>]
                 ELSE baton
      old_session_url == ra_session.url
      synced == svn_wc__textbase_sync(allow_hydrate, files, 1, started, env)
      reparented == IF ra_session # NoSession
                    THEN [synced EXCEPT !.ra_session.url = old_session_url]
                    ELSE synced
      ended == IF notifying
               THEN [reparented EXCEPT !.trace =
                       Append(@, "svn_wc_notify_hydrating_end")]
               ELSE reparented
      Out(b, err, stored) ==
        [err |-> err, ra_session |-> b.ra_session,
         ra_session_p |-> IF stored THEN b.ra_session ELSE NoSession,
         opens |-> b.opens, trace |-> b.trace]
  IN  IF ~svn_dirent_is_absolute(bld, local_abspath)
      THEN Out(baton, "SVN_ERR_ASSERTION_FAIL", FALSE)
      ELSE IF ra_session # NoSession /\ Fails(env, "svn_ra_get_session_url", 0)
      THEN Out(started, "svn_ra_get_session_url", FALSE)
      ELSE IF synced.err # NoError
      THEN Out(synced, synced.err, FALSE)
      ELSE IF ra_session # NoSession /\ Fails(env, "svn_ra_reparent", 0)
      THEN Out(synced, "svn_ra_reparent", FALSE)
      ELSE Out(ended, NoError, ra_session_p)

MaxSavedComponents == 11

(* svn_dirent_join_many on up to MaxSavedComponents components, empty or   *)
(* not.  A store past the end of saved_lengths is undefined behaviour: the  *)
(* build may leave the result as it is or end the process.                  *)
DoJoinManySaved ==
  /\ pc = "idle"
  /\ \E base \in {<< >>, <<"a">>, <<"/">>} :
       \E comps \in Seqs({<< >>, <<"a">>}, MaxSavedComponents) :
         \E crash \in BOOLEAN :
           LET saved == join_many_saved_lengths(build, base, comps)
           IN  Call("join_many_saved", type_dirent, <<base>> \o comps,
                    [result |->
                       IF /\ crash
                          /\ \E k \in 1 .. Len(saved.stores) :
                               saved.stores[k].slot >= MAX_SAVED_LENGTHS
                         THEN ABORTED
                         ELSE svn_dirent_join_many(build, base, comps),
                     saved |-> saved])

MaxUrlLen == 4

(* the non-empty strings svn_url_is_canonical accepts: URLs with a scheme, *)
(* paths from "/" and schemeless relative URIs                              *)
UrlTable ==
  [b \in Builds |->
     {x \in Concat(CanonPrefixes(b, type_uri),
                   Seqs(CanonAlphabet(b, type_uri), MaxUrlLen)) :
         x # << >> /\ svn_url_is_canonical(b, x)}]

(* svn_url_dirname on a string its assertion accepts.  length is the       *)
(* length handed to apr_pstrmemdup.  When the index of uri_previous_segment *)
(* has left the string the reads before uri[0] are undefined behaviour: a   *)
(* read faults, or a '/' found in the bytes before the string ends the scan *)
(* at a wrapped index no allocation can serve                               *)
DoUrlDirname ==
  /\ pc = "idle"
  /\ \E uri \in UrlTable[build] :
       LET len == Len(uri)
           length == IF svn_url_is_root(uri, len) THEN len
                     ELSE uri_previous_segment(uri, len)
       IN  IF length = BadIndex
           THEN \E fault \in {"read", "alloc"} :
                  Call("url_dirname", type_uri, <<uri>>,
                       [result |-> ABORTED, length |-> length,
                        fault |-> fault])
           ELSE Call("url_dirname", type_uri, <<uri>>,
                     [result |-> svn_url_dirname(build, uri),
                      length |-> length, fault |-> "none"])

MaxFiles == 2

RepoRoot == <<"r">>

(* the files to hydrate, each as the root URL and the path in the repository *)
HydrateFiles ==
  Seqs([root : {RepoRoot}, relpath : {<<"a">>, <<"b">>}], MaxFiles)

(* no session, or the caller's session at the root or at the first file *)
CallerSessions ==
  {NoSession} \cup
  [url : {RepoRoot, RepoRoot \o <<"/", "a">>}, owner : {"caller"},
   pool : {"caller"}]

TextbaseEnvs ==
  {[fn |-> "none", at |-> 0], [fn |-> "svn_ra_get_session_url", at |-> 0],
   [fn |-> "svn_ra_reparent", at |-> 0]}
  \cup [fn : {"svn_wc__textbase_sync"}, at : 0 .. MaxFiles]
  \cup [fn : {"svn_client__open_ra_session_internal",
              "svn_client__ensure_ra_session_url",
              "svn_ra_fetch_file_contents"}, at : 1 .. MaxFiles]

DoTextbaseSync ==
  /\ pc = "idle"
  /\ \E ra_session_p \in BOOLEAN : \E local_abspath \in {<<"/", "w">>, <<"w">>} :
       \E allow_hydrate \in BOOLEAN : \E allow_dehydrate \in BOOLEAN :
         \E notify_func2 \in BOOLEAN : \E ra_session \in CallerSessions :
           \E files \in HydrateFiles : \E env \in TextbaseEnvs :
             Call("textbase_sync", type_dirent,
                  [ra_session_p |-> ra_session_p,
                   local_abspath |-> local_abspath,
                   allow_hydrate |-> allow_hydrate,
                   allow_dehydrate |-> allow_dehydrate,
                   ra_session |-> ra_session, files |-> files, env |-> env],
                  svn_client__textbase_sync(build, ra_session_p, local_abspath,
                    allow_hydrate, [notify_func2 |-> notify_func2],
                    ra_session, files, env))

DoJoinMany ==
  /\ pc = "idle"
  /\ \E base \in JoinManyPaths(build) :
       \E comps \in Seqs(JoinManyPaths(build), MaxComponents) :
         Call("join_many", type_dirent, <<base>> \o comps,
              svn_dirent_join_many(build, base, comps))

DoCondenseTargets ==
  /\ pc = "idle"
  /\ \E t \in {type_dirent, type_uri} :
       \E targets \in Seqs(CondenseTable[build][t], MaxTargets) :
         \E remove_redundancies \in BOOLEAN :
           Call("condense_targets", t, <<targets, remove_redundancies>>,
                condense_targets(build, t, targets, remove_redundancies))

MaxProps == 4

(* the property lists handed to delta_proplists: under each of the names   *)
(* 1 .. MaxProps no property or one of two values, in the order of names    *)
RECURSIVE PropLists(_)
PropLists(n) ==
  IF n = 0 THEN {<< >>}
  ELSE {p \o q : p \in PropLists(n - 1),
                 q \in {<< >>, <<Prop(n, "v")>>, <<Prop(n, "w")>>}}

DoDeltaProplists ==
  /\ pc = "idle"
  /\ \E source \in PropLists(MaxProps) \cup {NullProplist} :
       \E target \in PropLists(MaxProps) :
         Call("delta_proplists", "tree", <<source, target>>,
              Emit([editor |-> SoundEditor, junk |-> NoError],
                   delta_proplists(source, target,
                     EditorCall("change_file_prop", <<1>>, 0, << >>, 0))))

MaxLineParts == 5

(* the lines of a description as their parts: a first line of up to        *)
(* MaxLineParts parts, and no second line, a second line that is an item or *)
(* a second line that is none                                               *)
ExternalsLines ==
  {<<first>> \o second :
     first \in Seqs({<<"d">>, <<"-", "r">>, <<"-", "r", "1">>, <<"1", "2">>,
                     <<"#">>}, MaxLineParts),
     second \in {<< >>, << <<<<"e">>, <<"u">>>> >>, << <<<<"e">>>> >>}}

(* the text of a line: its parts, each after the white space sep *)
RECURSIVE LineText(_, _)
LineText(line_parts, sep) ==
  IF line_parts = << >> THEN << >>
  ELSE sep \o Head(line_parts) \o LineText(Tail(line_parts), sep)

(* the text of a description: its lines, each ended by white space and a   *)
(* line end                                                                 *)
RECURSIVE ExternalsText(_, _)
ExternalsText(lines, sep) ==
  IF lines = << >> THEN << >>
  ELSE LineText(Head(lines), sep) \o sep \o <<"CR", "NL">>
       \o ExternalsText(Tail(lines), sep)

(* what the variable of the caller holds before the call *)
PriorTable ==
  {[target_dir |-> <<"p">>, url |-> <<"u">>,
    revision |-> [kind |-> "svn_client_revision_head", number |-> -1]]}

(* the external items of the tables handed to handle_external_item_change *)
ExternalItems ==
  {[target_dir |-> t, url |-> u, revision |-> r] :
     t \in {<<"d">>, <<"s", "/", "d">>},
     u \in {<<"u">>, <<"v">>},
     r \in {[kind |-> "svn_client_revision_head", number |-> -1],
            [kind |-> "svn_client_revision_number", number |-> 1],
            [kind |-> "svn_client_revision_number", number |-> 2]}}

(* the tables: a null table, or the table of one item *)
ExternalTables == {{}} \cup {{item} : item \in ExternalItems}

(* the outcomes of the functions that handle_external_item_change calls *)
ExternalEnvs ==
  [{"svn_io_make_dir_recursively", "svn_client_checkout",
    "svn_wc_remove_from_revision_control", "svn_io_remove_dir"}
     -> {NoError, "SVN_ERR_WC_LEFT_LOCAL_MOD", "SVN_ERR_WC_NOT_DIRECTORY"}]

(* svn_hash_diff calls the handler on a key that one of the tables holds *)
DoHandleExternalItemChange ==
  /\ pc = "idle"
  /\ \E old_desc \in ExternalTables : \E new_desc \in ExternalTables :
       \E item \in old_desc \cup new_desc : \E env \in ExternalEnvs :
         Call("handle_external_item_change", "externals",
              <<[old_desc |-> old_desc, new_desc |-> new_desc,
                 parent_dir |-> <<"w">>], item.target_dir, env>>,
              handle_external_item_change(build,
                [old_desc |-> old_desc, new_desc |-> new_desc,
                 parent_dir |-> <<"w">>], item.target_dir, env))

DoParseExternals ==
  /\ pc = "idle"
  /\ \E lines \in ExternalsLines : \E sep \in {<<" ">>, <<"TAB", " ">>} :
       Call("parse_externals", "externals",
            <<ExternalsText(lines, sep), lines>>,
            parse_externals_description(PriorTable,
                                        ExternalsText(lines, sep)))

(* the editors handed to svn_fs_dir_delta: the sound one, and for each     *)
(* callback the delta calls an editor that fails it                         *)
Editors ==
  {SoundEditor}
    \cup {[fails |-> f, error |-> "SVN_ERR_EDITOR"] :
            f \in {"replace_root", "change_dir_prop", "change_dirent_prop",
                   "delete", "replace_directory", "replace_file",
                   "change_file_prop", "apply_textdelta", "delta_handler",
                   "close_file", "close_directory"}}

(* the directories handed to svn_fs_dir_delta together with such an        *)
(* editor: without properties, and under the name 2 no entry, a file or a   *)
(* directory                                                                *)
EditedDirs ==
  {d \in TopDirs :
     /\ d.props = << >>
     /\ \A k \in 1 .. Len(d.entries) :
          d.entries[k].name = 2 => d.entries[k].id \in {<<1, 0>>, <<3, 0>>}}

(* svn_fs_dir_delta has no parameter for a cancellation query and no       *)
(* function of delta.c asks one: cancel, the answer the query of the caller *)
(* gives from the end of the first entry of the root on, is kept with the   *)
(* arguments                                                                *)
DoDirDeltaEditor ==
  /\ pc = "idle"
  /\ \E source \in EditedDirs : \E target \in EditedDirs :
       \E junk \in {NoError, "JUNK"} : \E editor \in Editors :
         \E cancel \in BOOLEAN :
           Call("dir_delta_editor", "tree",
                <<source, target, junk, editor, cancel>>,
                svn_fs_dir_delta(junk, source, target, editor))

DoDirDelta ==
  /\ pc = "idle"
  /\ \E source \in TopDirs : \E target \in TopDirs :
       \E junk \in {NoError, "JUNK"} :
         Call("dir_delta", "tree", <<source, target, junk>>,
              svn_fs_dir_delta(junk, source, target, SoundEditor))

DoSplit ==
  /\ pc = "idle"
  /\ \E t \in PathTypes : \E path \in CanonPaths(build, t) :
       Call("split", t, <<path>>, Split(build, t, path))

NextCanon ==
  \/ DoCanonicalize
  \/ DoIsCanonical
  \/ DoIsAbsolute
  \/ Return

NextAncestor ==
  \/ DoIsChild
  \/ DoIsAncestor
  \/ DoSkipAncestor
  \/ DoLongestAncestor
  \/ Return

NextJoin ==
  \/ DoJoin
  \/ DoJoinMany
  \/ DoSplit
  \/ Return

NextCondense ==
  \/ DoCondenseTargets
  \/ Return

NextDelta ==
  \/ DoDirDelta
  \/ DoDeltaProplists
  \/ Return

NextDeltaEditor ==
  \/ DoDirDeltaEditor
  \/ Return

NextSavedLengths ==
  \/ DoJoinManySaved
  \/ Return

NextDirname ==
  \/ DoUrlDirname
  \/ Return

NextTextbase ==
  \/ DoTextbaseSync
  \/ Return

NextExternals ==
  \/ DoParseExternals
  \/ DoHandleExternalItemChange
  \/ Return

Next ==
  \/ NextCanon
  \/ NextAncestor
  \/ NextJoin
  \/ NextCondense
  \/ NextDelta
  \/ NextDeltaEditor
  \/ NextExternals
  \/ NextDirname
  \/ NextTextbase
  \/ NextSavedLengths

(* every public function *)
Spec == Init /\ [][Next]_vars

(* canonicalize, is_canonical and is_absolute on raw strings *)
SpecCanon == Init /\ [][NextCanon]_vars

(* is_child, is_ancestor, skip_ancestor, longest_ancestor on canonical paths *)
SpecAncestor == Init /\ [][NextAncestor]_vars

(* join, join_many, dirname and basename on canonical paths *)
SpecJoin == Init /\ [][NextJoin]_vars

(* condense_targets on lists of absolute canonical targets *)
SpecCondense == Init /\ [][NextCondense]_vars

(* svn_fs_dir_delta on pairs of directories and delta_proplists on pairs  *)
(* of property lists; delta.c does not depend on the build                  *)
InitDelta == Init /\ build = [dos |-> FALSE, unseq_new |-> FALSE]

SpecDelta == InitDelta /\ [][NextDelta]_vars

(* svn_dirent_join_many on long lists of components *)
SpecSavedLengths == Init /\ [][NextSavedLengths]_vars

(* svn_url_dirname on every string svn_url_is_canonical accepts *)
SpecDirname == Init /\ [][NextDirname]_vars

(* svn_client__textbase_sync with and without a session of the caller *)
SpecTextbase == Init /\ [][NextTextbase]_vars

(* the functions of externals.c, which do not depend on the build *)
SpecExternals == InitDelta /\ [][NextExternals]_vars

(* svn_fs_dir_delta with an editor whose callbacks may fail *)
SpecDeltaEditor == InitDelta /\ [][NextDeltaEditor]_vars

-----------------------------------------------------------------------------
(* C1: canonicalize is idempotent for every flavor: canonicalizing the     *)
(* result of canonicalize gives that result back.                          *)
C1_CanonicalizeIdempotent ==
  (pc = "done" /\ op = "canonicalize")
     => Canonicalize(build, type, ret) = ret

(* C2: is_canonical(x) is true exactly when x equals canonicalize(x).      *)
C2_IsCanonicalIffFixpoint ==
  (pc = "done" /\ op = "is_canonical")
     => (ret <=> (args[1] = Canonicalize(build, type, args[1])))

(* the fold of svn_dirent_join over comps[k..], starting from acc *)
RECURSIVE JoinFold(_, _, _, _)
JoinFold(b, acc, comps, k) ==
  IF k > Len(comps) THEN acc
  ELSE JoinFold(b, svn_dirent_join(b, acc, comps[k]), comps, k + 1)

(* C3: join_many(base, c1, ..., cn) returns what folding join over the     *)
(* components from left to right returns.                                  *)
C3_JoinManyIsFold ==
  (pc = "done" /\ op = "join_many")
     => ret = JoinFold(build, args[1], Tail(args), 1)

(* C4: longest_ancestor(a, b) is an ancestor of a and of b, and no         *)
(* strictly longer canonical path is an ancestor of both.                  *)
C4_LongestAncestorIsMaximal ==
  (pc = "done" /\ op = "longest_ancestor")
     => /\ IsAncestor(build, type, ret, args[1])
        /\ IsAncestor(build, type, ret, args[2])
        /\ \A c \in CanonPaths(build, type) :
             (IsAncestor(build, type, c, args[1])
                /\ IsAncestor(build, type, c, args[2])) => Len(c) <= Len(ret)

(* C5: is_ancestor is reflexive: is_ancestor(a, a) is true for every       *)
(* canonical path a of every flavor, the empty path included.              *)
C5_IsAncestorReflexive ==
  (pc = "done" /\ op = "is_ancestor" /\ args[1] = args[2]) => ret = TRUE

(* C6: is_ancestor is transitive: when is_ancestor(a, b) and               *)
(* is_ancestor(b, c) hold for canonical paths of one flavor, so does       *)
(* is_ancestor(a, c).                                                      *)
C6_IsAncestorTransitive ==
  (pc = "done" /\ op = "is_ancestor" /\ ret = TRUE)
     => \A c \in CanonPaths(build, type) :
          IsAncestor(build, type, args[2], c)
             => IsAncestor(build, type, args[1], c)

(* C7: for a canonical path p that is not a root, joining dirname(p) and   *)
(* basename(p) gives p back, in each flavor.                               *)
C7_JoinSplitRoundTrip ==
  (pc = "done" /\ op = "split" /\ ~IsRoot(build, type, args[1]))
     => Join(build, type, ret[1], ret[2]) = args[1]

(* C8: whenever is_child(a, b) returns a suffix s, skip_ancestor(a, b)     *)
(* returns s and join(a, s) equals b.                                      *)
C8_SkipChildAgreement ==
  (pc = "done" /\ op = "is_child" /\ ret # NULLPTR)
     => /\ SkipAncestor(build, type, args[1], args[2]) = ret
        /\ Join(build, type, args[1], ret) = args[2]

(* C9: is_child(parent, child) returns a suffix exactly when child differs *)
(* from parent and is_ancestor(parent, child) is true; is_ancestor(parent, *)
(* child) is true exactly when parent equals child or is_child returns a   *)
(* suffix.                                                                 *)
C9_IsChildAgreesWithIsAncestor ==
  (pc = "done" /\ op = "is_child")
     => /\ (ret # NULLPTR) <=>
             (args[1] # args[2] /\ IsAncestor(build, type, args[1], args[2]))
        /\ IsAncestor(build, type, args[1], args[2]) <=>
             (args[1] = args[2] \/ ret # NULLPTR)

(* the dirent join rules as C10 words them: an absolute component, then an *)
(* empty operand, then base, separator, component                          *)
JoinAsClaimed(b, base, component) ==
  IF svn_dirent_is_absolute(b, component) THEN component
  ELSE IF base = << >> THEN component
  ELSE IF component = << >> THEN base
  ELSE base \o (IF Last(base) = "/" \/ (b.dos /\ Last(base) = ":")
                THEN << >> ELSE <<"/">>)
            \o component

(* the root a drive-relative component is joined to: "X:" gives "X:/" *)
RootOf(b, base) ==
  LET root == StrPrefix(base, dirent_root_length(b, base, Len(base)))
  IN  IF Len(root) = 2 /\ root[2] = ":" THEN root \o <<"/">> ELSE root

(* the rules with the DOS cases between the empty operand and the          *)
(* concatenation: a component that starts with '/' is joined, without that *)
(* '/', to the root of a rooted base and returned as it is for a base that *)
(* is not rooted; any other rooted component is returned as it is          *)
JoinWithDosRules(b, base, component) ==
  IF svn_dirent_is_absolute(b, component) \/ base = << >> THEN component
  ELSE IF component = << >> THEN base
  ELSE IF b.dos /\ component[1] = "/" /\ dirent_is_rooted(b, base)
  THEN JoinAsClaimed(b, RootOf(b, base), Tail(component))
  ELSE IF b.dos /\ dirent_is_rooted(b, component) THEN component
  ELSE JoinAsClaimed(b, base, component)

(* C10 as stated: svn_dirent_join of canonical dirents returns an absolute *)
(* component, else the other operand of an empty one, else base, a '/'     *)
(* unless base ends with one (or with ':' on DOS), and component; the      *)
(* result is canonical.                                                    *)
C10_DirentJoinAsClaimed ==
  (pc = "done" /\ op = "join" /\ type = type_dirent)
     => /\ ret = JoinAsClaimed(build, args[1], args[2])
        /\ svn_dirent_is_canonical(build, ret)

(* C10 amended: svn_dirent_join of canonical dirents follows the claimed   *)
(* rules with the DOS rules for a rooted component that is not absolute    *)
(* placed before the concatenation, and the result is canonical.           *)
C10_DirentJoinRules ==
  (pc = "done" /\ op = "join" /\ type = type_dirent)
     => /\ ret = JoinWithDosRules(build, args[1], args[2])
        /\ svn_dirent_is_canonical(build, ret)
        /\ ret = svn_dirent_canonicalize(build, ret)

(* the fold of longest_ancestor over paths[k..], starting from acc *)
RECURSIVE AncestorFold(_, _, _, _, _)
AncestorFold(b, t, paths, k, acc) ==
  IF k > Len(paths) THEN acc
  ELSE AncestorFold(b, t, paths, k + 1, LongestAncestor(b, t, acc, paths[k]))

(* path relative to base, for a base that is empty, equal to path, or a    *)
(* prefix of path that ends with '/' or is followed by '/' in path          *)
RelativeTo(base, path) ==
  IF base = << >> THEN path
  ELSE IF base = path THEN << >>
  ELSE IF Last(base) = "/" THEN StrFrom(path, Len(base))
  ELSE StrFrom(path, Len(base) + 1)

(* the paths of the indices in K from k on, relative to base, in order *)
RECURSIVE KeptSuffixes(_, _, _, _)
KeptSuffixes(base, paths, K, k) ==
  IF k > Len(paths) THEN << >>
  ELSE (IF k \in K THEN <<RelativeTo(base, paths[k])>> ELSE << >>)
         \o KeptSuffixes(base, paths, K, k + 1)

(* C11: condense_targets on absolute canonical inputs returns as common    *)
(* base the fold of longest_ancestor over the inputs; with                  *)
(* remove_redundancies the suffixes are those of a set of retained inputs   *)
(* none of which is a descendant of or equal to another retained one or     *)
(* equal to the common base, every other input being equal to the common    *)
(* base or a descendant of or equal to an input that survived the removal   *)
(* of descendants, and each retained input appears as its path relative to  *)
(* the common base, in input order.                                         *)
C11_CondenseTargets ==
  (pc = "done" /\ op = "condense_targets" /\ Len(args[1]) >= 1) =>
    /\ ret.common = AncestorFold(build, type, args[1], 2, args[1][1])
    /\ args[2] =>
         \E K \in SUBSET (1 .. Len(args[1])) :
           /\ ret.targets = KeptSuffixes(ret.common, args[1], K, 1)
           /\ \A k \in K : args[1][k] # ret.common
           /\ \A k \in K : \A j \in K \ {k} :
                ~IsAncestor(build, type, args[1][j], args[1][k])
           /\ \A k \in (1 .. Len(args[1])) \ K :
                \/ args[1][k] = ret.common
                \/ \E j \in (1 .. Len(args[1])) \ {k} :
                     /\ j \in K \/ args[1][j] = ret.common
                     /\ IsAncestor(build, type, args[1][j], args[1][k])

(* the example of C11: a descendant has been dropped and two siblings kept *)
C11_Witness ==
  /\ pc = "done" /\ op = "condense_targets" /\ type = type_dirent
  /\ args = << << <<"/", "x", "/", "a">>, <<"/", "x", "/", "a", "/", "b">>,
                 <<"/", "x", "/", "c">> >>, TRUE >>
  /\ ret.common = <<"/", "x">>
  /\ ret.targets = << <<"a">>, <<"c">> >>

(* C12: svn_dirent_is_absolute is true under POSIX rules exactly when the  *)
(* dirent begins with '/', and under DOS rules exactly when it begins with  *)
(* "//" or with a letter of either case followed by ":/".                   *)
C12_IsAbsolute ==
  (pc = "done" /\ op = "is_absolute") =>
    (ret <=> IF build.dos
               THEN \/ At(args[1], 0) = "/" /\ At(args[1], 1) = "/"
                    \/ /\ IsLetter(At(args[1], 0))
                       /\ At(args[1], 1) = ":"
                       /\ At(args[1], 2) = "/"
               ELSE At(args[1], 0) = "/")

(* the calls that open a node, the baton of the node a call opens, and its *)
(* kind                                                                     *)
OpenCalls ==
  {"replace_root", "replace_directory", "replace_file", "add_directory",
   "add_file"}

OpenedBaton(c) == IF c.call = "replace_root" THEN << >> ELSE c.baton \o <<c.name>>

OpenedKind(c) == IF c.call \in {"replace_file", "add_file"} THEN "file" ELSE "dir"

(* calls[k..] keep the discipline of frames, entered with the stack of the *)
(* open nodes: a node is opened in the directory on top of the stack (the   *)
(* root with nothing open), a close closes the node on top of the stack     *)
(* with the call of its kind, and nothing is left open at the end           *)
RECURSIVE FramesLifo(_, _, _)
FramesLifo(calls, k, stack) ==
  IF k > Len(calls) THEN stack = << >>
  ELSE IF calls[k].call \in OpenCalls
    THEN /\ IF calls[k].call = "replace_root" THEN stack = << >>
            ELSE /\ stack # << >>
                 /\ stack[Len(stack)].kind = "dir"
                 /\ stack[Len(stack)].baton = calls[k].baton
         /\ FramesLifo(calls, k + 1,
              Append(stack, [baton |-> OpenedBaton(calls[k]),
                             kind |-> OpenedKind(calls[k])]))
  ELSE IF calls[k].call \in {"close_directory", "close_file"}
    THEN /\ stack # << >>
         /\ stack[Len(stack)].baton = calls[k].baton
         /\ stack[Len(stack)].kind
              = (IF calls[k].call = "close_file" THEN "file" ELSE "dir")
         /\ FramesLifo(calls, k + 1, SubSeq(stack, 1, Len(stack) - 1))
  ELSE FramesLifo(calls, k + 1, stack)

(* C13: when svn_fs_dir_delta returns success, every node opened by        *)
(* replace_root, replace_directory, replace_file, add_directory or add_file *)
(* is closed exactly once by the close call of its kind, the closes come in *)
(* the reverse order of the opens, and no two siblings are open at once.    *)
C13_ClosedFrames ==
  (pc = "done" /\ op = "dir_delta" /\ ret.err = NoError) =>
    FramesLifo(ret.calls, 1, << >>)

(* a successful delta has opened a file two levels below the root and two  *)
(* nodes, one after the other, in one directory                             *)
C13_Witness ==
  /\ pc = "done" /\ op = "dir_delta" /\ ret.err = NoError
  /\ \E k \in 1 .. Len(ret.calls) :
       ret.calls[k].call = "replace_file" /\ Len(ret.calls[k].baton) >= 2
  /\ \E j \in 1 .. Len(ret.calls) : \E k \in j + 1 .. Len(ret.calls) :
       /\ ret.calls[j].call \in OpenCalls
       /\ ret.calls[k].call \in OpenCalls
       /\ ret.calls[j].call # "replace_root"
       /\ ret.calls[j].baton = ret.calls[k].baton

(* an add_file or add_directory call in the root directory *)
IsTopAdd(c) == c.call \in {"add_file", "add_directory"} /\ c.baton = << >>

(* C14: when the source directory has no entries and the target directory  *)
(* has N, the delta makes exactly N add_file or add_directory calls in the  *)
(* root directory, one for each target entry, in the order of the entry     *)
(* names.                                                                   *)
C14_AddOnly ==
  (pc = "done" /\ op = "dir_delta" /\ args[1].entries = << >>) =>
    /\ Len(SelectSeq(ret.calls, IsTopAdd)) = Len(args[2].entries)
    /\ \A k \in 1 .. Len(args[2].entries) :
         SelectSeq(ret.calls, IsTopAdd)[k].name = args[2].entries[k].name

(* the value of the property called name in a property list, "NULL" when   *)
(* the list has none, and the names whose values differ between two lists   *)
PropValue(props, name) ==
  IF \E k \in 1 .. Len(props) : props[k].name = name
    THEN (CHOOSE p \in Range(props) : p.name = name).value
    ELSE "NULL"

ChangedNames(source, target) ==
  {name \in {p.name : p \in Range(source) \cup Range(target)} :
      PropValue(source, name) # PropValue(target, name)}

(* entry k of two directories is one file in two states that differ in one *)
(* property and in nothing else                                             *)
OnePropOfFile(source, target, k) ==
  /\ source.entries[k].name = target.entries[k].name
  /\ source.entries[k].props = target.entries[k].props
  /\ source.entries[k].id # target.entries[k].id
  /\ Nodes[source.entries[k].id].kind = "file"
  /\ Nodes[target.entries[k].id].kind = "file"
  /\ Nodes[source.entries[k].id].contents
       = Nodes[target.entries[k].id].contents
  /\ Cardinality(ChangedNames(Nodes[source.entries[k].id].props,
                              Nodes[target.entries[k].id].props)) = 1

(* two directories differ in one property of one file only *)
PropertyOnlyChange(source, target) ==
  /\ source.props = target.props
  /\ Len(source.entries) = Len(target.entries)
  /\ \E k \in 1 .. Len(source.entries) :
       /\ OnePropOfFile(source, target, k)
       /\ \A j \in (1 .. Len(source.entries)) \ {k} :
            source.entries[j] = target.entries[j]

IsChangeFileProp(c) == c.call = "change_file_prop"

IsApplyTextdelta(c) == c.call = "apply_textdelta"

(* C15: when source and target differ only in one property of a single     *)
(* file, the editor receives exactly one change_file_prop call and no       *)
(* apply_textdelta call.                                                    *)
C15_PropertyOnlyChange ==
  (pc = "done" /\ op = "dir_delta" /\ PropertyOnlyChange(args[1], args[2])) =>
    /\ Len(SelectSeq(ret.calls, IsChangeFileProp)) = 1
    /\ Len(SelectSeq(ret.calls, IsApplyTextdelta)) = 0

(* the index, from 1, of the entry of source_entries closest to the id,    *)
(* the lowest such index on a tie, or 0 when every entry is unrelated       *)
ClosestRelative(source_entries, id) ==
  LET related == {i \in 1 .. Len(source_entries) :
                     svn_fs_id_distance(id, source_entries[i].id) # -1}
  IN  IF related = {} THEN 0
      ELSE CHOOSE i \in related : \A j \in related :
             \/ svn_fs_id_distance(id, source_entries[i].id)
                  < svn_fs_id_distance(id, source_entries[j].id)
             \/ /\ svn_fs_id_distance(id, source_entries[i].id)
                     = svn_fs_id_distance(id, source_entries[j].id)
                /\ i <= j

(* C16: a replace_file or replace_directory call in the root directory,    *)
(* made for an entry whose id changed, names as ancestor the source entry   *)
(* closest to the id of the TARGET entry among those related to it, the     *)
(* lowest index on a tie, with the version of that entry's node; when no    *)
(* source entry is related to the target entry the ancestor is null and the *)
(* revision 0.                                                              *)
C16_ReplaceAncestor ==
  (pc = "done" /\ op = "dir_delta") =>
    \A k \in 1 .. Len(ret.calls) :
      (/\ ret.calls[k].call \in {"replace_file", "replace_directory"}
       /\ ret.calls[k].baton = << >>) =>
        \E t \in 1 .. Len(args[2].entries) :
          /\ args[2].entries[t].name = ret.calls[k].name
          /\ LET best == ClosestRelative(args[1].entries, args[2].entries[t].id)
             IN  IF best = 0
                   THEN ret.calls[k].path = <<0>> /\ ret.calls[k].rev = 0
                   ELSE /\ ret.calls[k].path = <<args[1].entries[best].name>>
                        /\ ret.calls[k].rev
                             = Nodes[args[1].entries[best].id].version

(* C17: the delta of a directory against itself (equal property lists,     *)
(* equal entries with equal ids and equal entry properties) makes the calls *)
(* replace_root and close_directory of the root, and no other editor call.  *)
C17_NullDiff ==
  (pc = "done" /\ op = "dir_delta" /\ args[1] = args[2]) =>
    /\ ret.err = NoError
    /\ Len(ret.calls) = 2
    /\ ret.calls[1].call = "replace_root"
    /\ ret.calls[2].call = "close_directory"
    /\ ret.calls[2].baton = << >>

(* a directory with a property, two entries and an entry property has been *)
(* compared against itself                                                  *)
C17_Witness ==
  /\ pc = "done" /\ op = "dir_delta" /\ args[1] = args[2]
  /\ args[1].props # << >>
  /\ Len(args[1].entries) = 2
  /\ args[1].entries[1].props # << >>
  /\ Nodes[args[1].entries[2].id].kind = "dir"
  /\ Len(ret.calls) = 2

(* the calls that edit an entry of the directory of their baton *)
ChildCalls ==
  {"delete", "replace_file", "replace_directory", "add_file", "add_directory",
   "change_dirent_prop"}

(* call c edits the child of directory dir it names, or lies inside a      *)
(* child of dir                                                             *)
IsChildEdit(c, dir) ==
  \/ c.call \in ChildCalls /\ c.baton = dir
  \/ /\ c.call # "replace_root"
     /\ Len(c.baton) > Len(dir)
     /\ SubSeq(c.baton, 1, Len(dir)) = dir

(* the name of the child of dir that the child edit c concerns *)
ChildName(c, dir) == IF c.baton = dir THEN c.name ELSE c.baton[Len(dir) + 1]

(* the batons of the calls and the directories above them *)
TraceDirs(calls) ==
  UNION {{SubSeq(calls[k].baton, 1, d) : d \in 0 .. Len(calls[k].baton)} :
           k \in 1 .. Len(calls)}

(* C18: within one directory every change_dir_prop call comes before any   *)
(* edit of its children; the edits of the children (delete, add, replace    *)
(* and the calls nested in them) come in ascending order of the entry       *)
(* names; and the change_dirent_prop calls of a child come before the       *)
(* replace of that child.                                                   *)
C18_DirectoryOrdering ==
  (pc = "done" /\ op = "dir_delta") =>
    \A dir \in TraceDirs(ret.calls) :
      \A j \in 1 .. Len(ret.calls) : \A i \in 1 .. j - 1 :
        /\ (ret.calls[j].call = "change_dir_prop" /\ ret.calls[j].baton = dir)
             => ~IsChildEdit(ret.calls[i], dir)
        /\ (IsChildEdit(ret.calls[i], dir) /\ IsChildEdit(ret.calls[j], dir))
             => ChildName(ret.calls[i], dir) <= ChildName(ret.calls[j], dir)
        /\ (/\ ret.calls[j].call = "change_dirent_prop"
            /\ ret.calls[j].baton = dir
            /\ IsChildEdit(ret.calls[i], dir)
            /\ ChildName(ret.calls[i], dir) = ret.calls[j].name)
             => ret.calls[i].call = "change_dirent_prop"

(* the root directory has had a property changed, then an entry property   *)
(* of its first child, then that child replaced, then its second child      *)
(* deleted or replaced                                                      *)
C18_Witness ==
  /\ pc = "done" /\ op = "dir_delta"
  /\ \E i, j, k, l \in 1 .. Len(ret.calls) :
       /\ i < j /\ j < k /\ k < l
       /\ ret.calls[i].call = "change_dir_prop" /\ ret.calls[i].baton = << >>
       /\ ret.calls[j].call = "change_dirent_prop"
       /\ ret.calls[j].baton = << >> /\ ret.calls[j].name = 1
       /\ ret.calls[k].call = "replace_file"
       /\ ret.calls[k].baton = << >> /\ ret.calls[k].name = 1
       /\ ret.calls[l].call \in {"delete", "replace_directory"}
       /\ ret.calls[l].baton = << >> /\ ret.calls[l].name = 2

(* C19: for property lists sorted by name, delta_proplists calls the       *)
(* change function exactly once for each name whose value differs between   *)
(* the lists and never for a name with equal values, in ascending order of  *)
(* the names; a name only in the source is reported with a null value, a    *)
(* name only in the target or with a changed value with the target's value; *)
(* a null source list is treated as empty.                                  *)
C19_ProplistDiff ==
  (pc = "done" /\ op = "delta_proplists") =>
    /\ Len(ret.calls)
         = Cardinality(ChangedNames(IF args[1] = NullProplist THEN << >>
                                    ELSE args[1], args[2]))
    /\ \A k \in 1 .. Len(ret.calls) :
         /\ ret.calls[k].call = "change_file_prop"
         /\ ret.calls[k].pname
              \in ChangedNames(IF args[1] = NullProplist THEN << >>
                               ELSE args[1], args[2])
         /\ ret.calls[k].value = PropValue(args[2], ret.calls[k].pname)
         /\ k < Len(ret.calls) => ret.calls[k].pname < ret.calls[k + 1].pname

(* delta_proplists has met a name only in the source, a name with a        *)
(* changed value, a name with equal values and a name only in the target    *)
C19_Witness ==
  /\ pc = "done" /\ op = "delta_proplists"
  /\ args[1] = <<Prop(1, "v"), Prop(2, "v"), Prop(3, "v")>>
  /\ args[2] = <<Prop(2, "w"), Prop(3, "v"), Prop(4, "v")>>
  /\ Len(ret.calls) = 3
  /\ ret.calls[1].value = "NULL"

(* delta_proplists has been handed a null source list *)
C19_WitnessNull ==
  /\ pc = "done" /\ op = "delta_proplists"
  /\ args[1] = NullProplist
  /\ Len(ret.calls) = 2

(* the node a path of names leads to from a directory *)
RECURSIVE NodeAt(_, _)
NodeAt(dir, path) ==
  IF path = << >> THEN dir
  ELSE NodeAt(svn_fs_open(dir, Head(path)), Tail(path))

(* the places in a trace of the calls made on a baton *)
CallsOn(calls, baton) == {k \in 1 .. Len(calls) : calls[k].baton = baton}

(* the calls of the window handler among them *)
HandlerCallsOn(calls, baton) ==
  {k \in CallsOn(calls, baton) : calls[k].call = "delta_handler"}

(* the windows the handler of a file of the target is due: those of the    *)
(* delta stream in the order of the stream, then the null window            *)
WindowsDue(target, file_baton) ==
  svn_txdelta(<< >>, NodeAt(target, file_baton).contents) \o <<0>>

(* the calls on the file opened by calls[i] keep the protocol of a file     *)
FileProtocol(calls, i, target) ==
  /\ \A k \in CallsOn(calls, OpenedBaton(calls[i])) :
       /\ k > i
       /\ calls[k].call \in {"change_file_prop", "apply_textdelta",
                             "delta_handler", "close_file"}
  /\ Cardinality({k \in CallsOn(calls, OpenedBaton(calls[i])) :
                    calls[k].call = "apply_textdelta"}) = 1
  /\ Cardinality({k \in CallsOn(calls, OpenedBaton(calls[i])) :
                    calls[k].call = "close_file"}) = 1
  /\ Cardinality(HandlerCallsOn(calls, OpenedBaton(calls[i])))
       = Len(WindowsDue(target, OpenedBaton(calls[i])))
  /\ \A j \in CallsOn(calls, OpenedBaton(calls[i])) :
       \A k \in CallsOn(calls, OpenedBaton(calls[i])) :
         /\ (calls[j].call = "change_file_prop"
               /\ calls[k].call = "apply_textdelta") => j < k
         /\ (calls[j].call = "apply_textdelta"
               /\ calls[k].call = "delta_handler") => j < k
         /\ (calls[j].call = "delta_handler" /\ calls[j].window = 0
               /\ calls[k].call = "delta_handler") => k <= j
         /\ (calls[j].call # "close_file"
               /\ calls[k].call = "close_file") => j < k
  /\ \A k \in HandlerCallsOn(calls, OpenedBaton(calls[i])) :
       calls[k].window
         = WindowsDue(target, OpenedBaton(calls[i]))
             [Cardinality({h \in HandlerCallsOn(calls, OpenedBaton(calls[i])) :
                             h <= k})]

(* C20: on a file frame, after replace_file or add_file, the               *)
(* change_file_prop calls come first, then exactly one apply_textdelta,     *)
(* then the window handler is called with each window of the delta stream   *)
(* in the order of the stream and exactly once more, as its final call,     *)
(* with a null window, and only then comes close_file; the handler is       *)
(* never called after the null window.                                      *)
C20_TextDeltaProtocol ==
  (pc = "done" /\ op = "dir_delta") =>
    \A i \in 1 .. Len(ret.calls) :
      ret.calls[i].call \in {"replace_file", "add_file"}
        => FileProtocol(ret.calls, i, args[2])

(* a file has been replaced whose property has changed and whose delta      *)
(* stream has two windows                                                   *)
C20_Witness ==
  /\ pc = "done" /\ op = "dir_delta" /\ ret.err = NoError
  /\ \E i \in 1 .. Len(ret.calls) :
       /\ ret.calls[i].call = "replace_file"
       /\ \E k \in CallsOn(ret.calls, OpenedBaton(ret.calls[i])) :
            ret.calls[k].call = "change_file_prop"
       /\ Cardinality(HandlerCallsOn(ret.calls, OpenedBaton(ret.calls[i]))) = 3
       /\ \E k \in HandlerCallsOn(ret.calls, OpenedBaton(ret.calls[i])) :
            ret.calls[k].window = 2

(* the functions of the editor and the window handler *)
EditorFns ==
  {"replace_root", "change_dir_prop", "change_dirent_prop", "delete",
   "add_directory", "add_file", "replace_directory", "replace_file",
   "change_file_prop", "apply_textdelta", "delta_handler", "close_file",
   "close_directory"}

(* an event of the trace is an editor callback or a snapshot access that   *)
(* returned an error                                                        *)
ReturnedError(event, editor) ==
  \/ event.call = editor.fails
  \/ event.value \in {"SVN_ERR_FS_NOT_FILE", "SVN_ERR_FS_NOT_DIRECTORY"}

(* the error it returned *)
ErrorOf(event, editor) ==
  IF event.call = editor.fails THEN editor.error ELSE event.value

(* C21: if any editor callback or snapshot access returns an error,        *)
(* svn_fs_dir_delta returns that first error unchanged, makes no further    *)
(* editor call after the failing one, so that it does not close the frames  *)
(* already opened, and destroys its scratch pool on that exit path exactly  *)
(* as on the success path.                                                  *)
C21_ErrorPropagation ==
  (pc = "done" /\ op = "dir_delta_editor") =>
    /\ ret.trace[1].call = "svn_pool_create"
    /\ \A k \in 1 .. Len(ret.trace) :
         ret.trace[k].call = "apr_destroy_pool" <=> k = Len(ret.trace)
    /\ \A k \in 1 .. Len(ret.trace) :
         ReturnedError(ret.trace[k], args[4]) =>
           /\ ret.err = ErrorOf(ret.trace[k], args[4])
           /\ \A j \in k + 1 .. Len(ret.trace) :
                ret.trace[j].call \notin EditorFns
           /\ ret.trace[k].call = args[4].fails =>
                ret.calls[Len(ret.calls)] = ret.trace[k]

(* a callback of the editor has failed two frames below the root, and the  *)
(* delta has returned its error with the three frames left open             *)
C21_Witness ==
  /\ pc = "done" /\ op = "dir_delta_editor"
  /\ args[4].fails # "none"
  /\ ret.err = args[4].error
  /\ Len(ret.calls) >= 4
  /\ Len(ret.calls[Len(ret.calls)].baton) = 2
  /\ ret.calls[Len(ret.calls)].call = args[4].fails
  /\ \A k \in 1 .. Len(ret.calls) :
       ret.calls[k].call \notin {"close_file", "close_directory"}
  /\ ret.trace[Len(ret.trace)].call = "apr_destroy_pool"

(* a snapshot access has failed after an editor call, and the delta has    *)
(* returned its error                                                       *)
C21_WitnessSnapshot ==
  /\ pc = "done" /\ op = "dir_delta_editor"
  /\ ret.err = "SVN_ERR_FS_NOT_DIRECTORY"
  /\ Len(ret.calls) >= 2

(* an event of the trace is the opening of a handle of the filesystem *)
OpensHandle(event) ==
  /\ event.call \in {"svn_fs_open_file", "svn_fs_open_subdir"}
  /\ event.value \in {"ancestor", "target"}

(* the event closes the handle that the event opened has opened *)
ClosesHandle(event, opened) ==
  /\ event.call = (IF opened.call = "svn_fs_open_file"
                     THEN "svn_fs_close_file" ELSE "svn_fs_close_dir")
  /\ event.baton = opened.baton
  /\ event.value = opened.value

(* the handle opened at trace[i] is closed later on, and before the close  *)
(* call of the editor on the node it was opened for                         *)
HandleClosed(trace, i) ==
  \E j \in i + 1 .. Len(trace) :
    /\ ClosesHandle(trace[j], trace[i])
    /\ \A k \in 1 .. Len(trace) :
         (/\ trace[k].call \in {"close_file", "close_directory"}
          /\ trace[k].baton = trace[i].baton) => j < k

(* C22: every file or directory handle that the delta opens during a       *)
(* replace, the ancestor and target handles in replace_related and the      *)
(* target handle in replace_from_scratch, is closed before the              *)
(* corresponding editor close_file or close_directory call, and is closed   *)
(* on every exit path of the replace, including when the opening of the     *)
(* second handle, the replace call of the editor or the nested delta        *)
(* returns an error.                                                        *)
C22_HandleLifetime ==
  (pc = "done" /\ op = "dir_delta_editor") =>
    \A i \in 1 .. Len(ret.trace) :
      OpensHandle(ret.trace[i]) => HandleClosed(ret.trace, i)

(* C23: the tree delta consults an optional cancellation query at every    *)
(* directory boundary and before every content-delta window; when the query *)
(* signals cancel between two siblings, here the two entries of the root,   *)
(* the delta returns a Cancelled error with the edits of the first sibling  *)
(* fully emitted, the second sibling not started, and the frames it owns    *)
(* closed.                                                                  *)
C23_Cancellation ==
  (/\ pc = "done" /\ op = "dir_delta_editor"
   /\ args[5] /\ args[4] = SoundEditor /\ args[3] = NoError
   /\ Len(args[1].entries) = 2 /\ Len(args[2].entries) = 2) =>
    /\ ret.err = "SVN_ERR_CANCELLED"
    /\ ret.calls
         = svn_fs_dir_delta(args[3],
                            [args[1] EXCEPT !.entries = SubSeq(@, 1, 1)],
                            [args[2] EXCEPT !.entries = SubSeq(@, 1, 1)],
                            args[4]).calls
    /\ FramesLifo(ret.calls, 1, << >>)

(* the parts of a line have one of the three shapes TARGET_DIR URL,        *)
(* TARGET_DIR -rN URL with N not empty, and TARGET_DIR -r N URL             *)
ExternalShape(line_parts) ==
  \/ Len(line_parts) = 2
  \/ /\ Len(line_parts) = 3
     /\ Len(line_parts[2]) >= 3
     /\ SubSeq(line_parts[2], 1, 2) = <<"-", "r">>
  \/ /\ Len(line_parts) = 4
     /\ line_parts[2] = <<"-", "r">>

(* C24: parse_externals_description accepts a line that is neither blank   *)
(* nor a comment only in one of the three shapes, its parts being what runs *)
(* of spaces and tabs divide; every other shape, a line of four parts whose *)
(* second part is -r followed by more characters among them, makes it       *)
(* return SVN_ERR_CLIENT_INVALID_EXTERNALS_DESCRIPTION and leave            *)
(* *EXTERNALS_P untouched.                                                  *)
C24_ExternalsShapes ==
  (pc = "done" /\ op = "parse_externals") =>
    IF \A i \in 1 .. Len(args[2]) :
         \/ args[2][i] = << >>
         \/ args[2][i][1][1] = "#"
         \/ ExternalShape(args[2][i])
      THEN ret.err = NoError
      ELSE /\ ret.err = "SVN_ERR_CLIENT_INVALID_EXTERNALS_DESCRIPTION"
           /\ ret.externals_p = PriorTable

(* the item of a table under a key is there, and what it is *)
HasItem(desc, key) == \E e \in desc : e.target_dir = key

ItemOf(desc, key) == CHOOSE e \in desc : e.target_dir = key

(* C25: when an external item exists only in the old description, an       *)
(* SVN_ERR_WC_LEFT_LOCAL_MOD error from removing it from revision control   *)
(* is suppressed and the handler returns success, while any other error     *)
(* from that removal is returned to the caller unchanged.                   *)
C25_LocalModsTolerated ==
  (/\ pc = "done" /\ op = "handle_external_item_change"
   /\ HasItem(args[1].old_desc, args[2])
   /\ ~HasItem(args[1].new_desc, args[2])) =>
    /\ Len(ret.calls) = 1
    /\ ret.calls[1].fn = "svn_wc_remove_from_revision_control"
    /\ ret.err
         = (IF args[3]["svn_wc_remove_from_revision_control"]
                 = "SVN_ERR_WC_LEFT_LOCAL_MOD"
              THEN NoError
              ELSE args[3]["svn_wc_remove_from_revision_control"])

(* the removal of an item only in the old description has left local       *)
(* modifications behind, and the handler has returned success               *)
C25_Witness ==
  /\ pc = "done" /\ op = "handle_external_item_change"
  /\ HasItem(args[1].old_desc, args[2])
  /\ ~HasItem(args[1].new_desc, args[2])
  /\ args[3]["svn_wc_remove_from_revision_control"]
       = "SVN_ERR_WC_LEFT_LOCAL_MOD"
  /\ ret.err = NoError

(* another error of the removal has been returned *)
C25_WitnessOther ==
  /\ pc = "done" /\ op = "handle_external_item_change"
  /\ ~HasItem(args[1].new_desc, args[2])
  /\ ret.err = "SVN_ERR_WC_NOT_DIRECTORY"

C26_WitnessRemovalFailed ==
  /\ pc = "done" /\ op = "handle_external_item_change"
  /\ HasItem(args[1].old_desc, args[2])
  /\ HasItem(args[1].new_desc, args[2])
  /\ args[3]["svn_io_remove_dir"] # NoError
  /\ Len(ret.calls) = 1

(* C27: svn_dirent_join_many never writes outside its saved_lengths array: *)
(* for any number of non-empty components, ten or more included, every      *)
(* store saved_lengths[k] has 0 <= k < MAX_SAVED_LENGTHS, and every later   *)
(* read of saved_lengths[k] reads a slot that was written for that same     *)
(* component.                                                               *)
C27_SavedLengthsBounds ==
  (pc = "done" /\ op = "join_many_saved") =>
    /\ \A i \in 1 .. Len(ret.saved.stores) :
         /\ ret.saved.stores[i].slot >= 0
         /\ ret.saved.stores[i].slot < MAX_SAVED_LENGTHS
    /\ \A j \in 1 .. Len(ret.saved.reads) :
         \E i \in 1 .. Len(ret.saved.stores) :
           /\ ret.saved.stores[i] = ret.saved.reads[j]
           /\ \A k \in i + 1 .. Len(ret.saved.stores) :
                ret.saved.stores[k].slot # ret.saved.reads[j].slot

(* C28: svn_url_dirname terminates with an in-bounds result for every      *)
(* non-empty string accepted by svn_url_is_canonical, schemeless URIs that  *)
(* contain no '/' included: the backward scan of uri_previous_segment never *)
(* moves its index below 0 and returns a length in 0 .. len.                *)
C28_DirnameInBounds ==
  (pc = "done" /\ op = "url_dirname") =>
    /\ ret.fault = "none"
    /\ ret.length \in 0 .. Len(args[1])
    /\ ret.result = StrPrefix(args[1], ret.length)

(* C29: svn_client__textbase_sync leaves a session supplied by the caller  *)
(* pointing at the URL it had on entry: whenever a non-NULL ra_session is   *)
(* passed, on every return, be it success, an error from the working-copy   *)
(* sync or an error from a hydrate callback that re-pointed the session,    *)
(* the session has been reparented back to the URL captured at entry; and   *)
(* within one invocation the hydrate callback opens a new RA session at     *)
(* most once, reusing it for all later files.                               *)
C29_SessionUrlRestored ==
  (pc = "done" /\ op = "textbase_sync") =>
    /\ ( /\ args.ra_session # NoSession
         /\ ret.err \in {NoError, "svn_wc__textbase_sync",
                         "svn_client__ensure_ra_session_url",
                         "svn_ra_fetch_file_contents"} )
         => ret.ra_session = args.ra_session
    /\ ret.opens <= 1
    /\ args.ra_session # NoSession => ret.opens = 0

(* C30: in svn_dirent_condense_targets and svn_url_condense_targets with   *)
(* remove_redundancies true, the counter num_condensed equals the number of *)
(* targets whose removed flag is false at the moment the result array is    *)
(* created, for every list of targets, lists where one target is a          *)
(* descendant of two or more other targets included: the removal of a       *)
(* target is counted at most once and the counter never goes negative.      *)
C30_NumCondensedCounts ==
  (pc = "done" /\ op = "condense_targets" /\ args[2] /\ Len(args[1]) >= 2) =>
    LET abs == condense_absolute(build, type, args[1])
        common == condense_common(build, type, abs, 1, abs[1])
        st == condense_marks(build, type, abs, common, TRUE)
    IN  /\ ret.num_condensed = st.num_condensed
        /\ st.num_condensed
             = Cardinality({k \in DOMAIN st.removed : ~st.removed[k]})
        /\ st.num_condensed >= 0

(* a drive-relative component has been joined to the root of a drive base *)
C10_Witness ==
  /\ pc = "done" /\ op = "join" /\ type = type_dirent /\ build.dos
  /\ args = << <<"A", ":", "a">>, <<"/", "a">> >>
  /\ ret = <<"A", ":", "/", "a">>

(* is_ancestor has accepted a root ending in '/' over a path that has a    *)
(* descendant of its own                                                   *)
C6_Witness ==
  /\ pc = "done" /\ op = "is_ancestor" /\ ret = TRUE
  /\ args[1] = <<"/">> /\ args[2] # args[1]
  /\ \E c \in CanonPaths(build, type) :
       c # args[2] /\ IsAncestor(build, type, args[2], c)

====
